---- MODULE Spec2Model ----
(***************************************************************************)
(* Persistence core of the announcement bot (src/bot.py): three JSON       *)
(* documents (subscribers, announcements, read receipts), the process-wide *)
(* asyncio lock json_lock, the primitives load_json / save_json /          *)
(* atomic_read_modify_write, the domain managers built on them, the        *)
(* retention sweep cleanup_old_announcements and the /delete command.      *)
(*                                                                         *)
(* Every task is one coroutine running one call.  A step of a task is the  *)
(* code it runs between two suspension points of the event loop: a blocked *)
(* acquire of json_lock, or the await of asyncio.to_thread inside          *)
(* load_json / save_json.  atomic_read_modify_write does its file access   *)
(* synchronously, so its locked body is one step.  A file is well formed,  *)
(* absent, unparsable or holds a JSON scalar, and a write can fail while a *)
(* specification still has faults to spend.                                *)
(***************************************************************************)
EXTENDS Integers, Sequences, FiniteSets, TLC

\* ------------------------------------------------------------ bounds
NumTasks == 3
\* concurrent handlers on the announcement store
NumHandlers == 2
MaxUser == 2
\* writes that can fail in a run with I/O faults
MaxFaults == 1
\* the day datetime.now() falls on; timestamps are whole days
Now == 20
ANNOUNCEMENT_RETENTION_DAYS == 10

Tasks == 1..NumTasks
Handlers == 1..NumHandlers
NoTask == 0
Users == 1..MaxUser
\* user ids a caller may pass: 0 stands for the non-positive ids
UserInputs == 0..MaxUser
AnnIds == {"a1", "a2"}

VARIABLES
    subsFile,   \* subscribers.json: a sequence of user ids
    annFile,    \* announcements.json: announcement id -> record
    recFile,    \* read_receipts.json: announcement id -> sequence of user ids
    json_lock,  \* [owner, queue]: the asyncio.Lock and its FIFO of waiters
    op,         \* op[t]: the call task t runs
    pc,         \* pc[t]: the suspension point task t is at
    loc,        \* loc[t]: the local variables of the call
    ret,        \* ret[t]: the value the call returned
    fstate,     \* fstate[p]: what reading the file at path p finds
    faults,     \* the writes that can still fail
    store0,     \* history: the three documents as they were when the tasks started
    before      \* history: before[t] are the tasks whose call had returned when t's began

vars == <<subsFile, annFile, recFile, json_lock, op, pc, loc, ret, fstate, faults,
          store0, before>>

\* ------------------------------------------------------------ documents
EmptyMap == [k \in {} |-> 0]

Range(s) == {s[i] : i \in DOMAIN s}

\* count of occurrences of x in the sequence s
Occurrences(s, x) == Cardinality({i \in DOMAIN s : s[i] = x})

\* a del that removes nothing
MapDelNothing(m, k) == m

\* dict without key k (del d[k])
MapDel(m, k) == [x \in (DOMAIN m) \ {k} |-> m[x]]

\* dict with d[k] = v
MapPut(m, k, v) == [x \in (DOMAIN m) \cup {k} |-> IF x = k THEN v ELSE m[x]]

\* list.remove(x): drops the first occurrence of x
RemoveFirst(s, x) ==
    IF x \notin Range(s) THEN s
    ELSE LET i == CHOOSE j \in DOMAIN s : s[j] = x /\ \A k \in 1..(j - 1) : s[k] # x
         IN  SubSeq(s, 1, i - 1) \o SubSeq(s, i + 1, Len(s))

\* ------------------------------------------------------------ ordered documents
\* Where the order of the keys or the fields of a record matter, the
\* announcements document is the sequence of its entries [key, rec] in the
\* order of the file, which is the order in which a dict is iterated.
Keys(d) == {d[i].key : i \in DOMAIN d}

\* d.get(k): <<>> is None
DictGet(d, k) ==
    IF k \in Keys(d)
    THEN <<d[CHOOSE i \in DOMAIN d : d[i].key = k].rec>>
    ELSE <<>>

\* d[k] = v: a key that is present keeps its place, a new key goes last
DictSet(d, k, v) ==
    IF k \in Keys(d)
    THEN [i \in DOMAIN d |-> IF d[i].key = k THEN [key |-> k, rec |-> v] ELSE d[i]]
    ELSE Append(d, [key |-> k, rec |-> v])

\* A text is <<source, length>>: the first length code points of the string
\* named source; '' is NoText.
NoText == <<"", 0>>

\* a field the caller's dict does not have
NoField == <<"absent", 0>>

\* data.get(field, '') for a text field
TextOr(text) == IF text = NoField THEN NoText ELSE text

\* a slice that keeps the whole text
TruncateNothing(text, limit) == text

\* text[:limit]
Truncate(text, limit) == IF text[2] > limit THEN <<text[1], limit>> ELSE text

CONTENT_LIMIT == 500
CAPTION_LIMIT == 200

\* the locals of a broadcasting handler: the snapshot of the subscribers, the
\* loop index i, the places of the batch whose send has not finished, the
\* results gathered so far, the two tallies, and how often each place was
\* sent to, how many batches were started and how many pauses were made
NoBroadcast ==
    [subscribers |-> <<>>, i |-> 0, pending |-> {}, results |-> EmptyMap,
     successful_sends |-> 0, failed_sends |-> <<>>,
     attempts |-> EmptyMap, batches |-> 0, pauses |-> 0]

\* swept: cleanup_old_announcements has returned to this handler
NoLocals ==
    [anns |-> EmptyMap, recs |-> EmptyMap, n |-> 0, ok |-> TRUE,
     swept |-> FALSE, bc |-> NoBroadcast, notice |-> ""]
NoOp == [kind |-> "none", a |-> "", u |-> 0]

\* ------------------------------------------------------------ JSON
\* A Python value is <<type, payload>>: "int", "str", "bool", "none" (payload
\* 0), "list" (a sequence of values) and "dict" (a set of <<key, value>>
\* pairs with distinct keys).  The text of a JSON file is <<kind, payload>>:
\* "number", "string", "true", "false", "null", "array" (a sequence) and
\* "object" (a set of <<name, text>> pairs, the names being strings).

\* isinstance(value, (dict, list))
PyIsDocument(v) == v[1] \in {"list", "dict"}

\* the member name json.dump writes for a dict key: a str as it is, an int
\* as its decimal digits
JsonKey(k) == IF k[1] = "str" THEN k[2] ELSE ToString(k[2])

\* json.dump(data, f, indent=2, ensure_ascii=False)
RECURSIVE JsonDump(_)
JsonDump(v) ==
    CASE v[1] = "list" -> <<"array", [i \in DOMAIN v[2] |-> JsonDump(v[2][i])]>>
      [] v[1] = "dict" -> <<"object", {<<JsonKey(kv[1]), JsonDump(kv[2])>> : kv \in v[2]}>>
      [] v[1] = "int" -> <<"number", v[2]>>
      [] v[1] = "str" -> <<"string", v[2]>>
      [] v[1] = "bool" -> <<IF v[2] THEN "true" ELSE "false", 0>>
      [] OTHER -> <<"null", 0>>

\* a parser that reads a member name made of digits back as an int
JsonNameDigits(n) == IF n = ToString(1) THEN <<"int", 1>> ELSE <<"str", n>>

\* the dict key json.load makes of a member name: always a str
JsonName(n) == <<"str", n>>

\* json.load(f)
RECURSIVE JsonLoad(_)
JsonLoad(j) ==
    CASE j[1] = "array" -> <<"list", [i \in DOMAIN j[2] |-> JsonLoad(j[2][i])]>>
      [] j[1] = "object" -> <<"dict", {<<JsonName(m[1]), JsonLoad(m[2])>> : m \in j[2]}>>
      [] j[1] = "number" -> <<"int", j[2]>>
      [] j[1] = "string" -> <<"str", j[2]>>
      [] j[1] = "true" -> <<"bool", TRUE>>
      [] j[1] = "false" -> <<"bool", FALSE>>
      [] OTHER -> <<"none", 0>>

PyNone == <<"none", 0>>

\* ------------------------------------------------------------ json_lock
\* a release that leaves the lock with its owner
ReleaseNothing(l) == l

\* a lock that every caller finds free
LockAlwaysFree(l) == TRUE

\* asyncio.Lock.acquire takes the lock at once only when it is unlocked and
\* nobody waits for it
LockFree(l) == l.owner = NoTask /\ l.queue = <<>>

\* async with json_lock: entering.  The task either owns the lock or waits
\* in FIFO order.
Acquire(l, t) ==
    IF LockFree(l)
    THEN [owner |-> t, queue |-> l.queue]
    ELSE [owner |-> l.owner, queue |-> Append(l.queue, t)]

\* async with json_lock: leaving.  The first waiter, if any, is woken and
\* no later caller can overtake it.
Release(l) ==
    IF l.queue = <<>>
    THEN [owner |-> NoTask, queue |-> <<>>]
    ELSE [owner |-> Head(l.queue), queue |-> Tail(l.queue)]

\* task t is suspended in acquire()
Blocked(t) == t \in Range(json_lock.queue)

\* ------------------------------------------------------------ validation
\* a check that lets every id through
ValidUserIdAny(u) == TRUE

ValidUserId(u) == u > 0

\* ------------------------------------------------------------ callbacks
\* a callback that appends without looking for the id
AddSubscriberUnchecked(data, u) == Append(data, u)

\* SubscriberManager.add_subscriber.modify_subscribers
AddSubscriberModify(data, u) ==
    IF u \notin Range(data) THEN Append(data, u) ELSE data

\* a callback whose filter is inverted: it keeps the id and drops the others
RemoveSubscriberInverted(data, u) == SelectSeq(data, LAMBDA x : x = u)

\* a callback that drops the first id of the list, whichever it is
RemoveSubscriberHead(data, u) == IF data = <<>> THEN data ELSE Tail(data)

\* SubscriberManager.remove_subscriber.modify_subscribers
RemoveSubscriberModify(data, u) ==
    IF u \in Range(data) THEN RemoveFirst(data, u) ELSE data

\* a callback that appends without looking for the user
ModifyReceiptsUnchecked(data, a, u) ==
    LET d1 == IF a \notin DOMAIN data THEN MapPut(data, a, <<>>) ELSE data
    IN  MapPut(d1, a, Append(d1[a], u))

\* ReadReceiptManager.mark_as_read.modify_receipts (the document it returns)
ModifyReceipts(data, a, u) ==
    LET d1 == IF a \notin DOMAIN data THEN MapPut(data, a, <<>>) ELSE data
    IN  IF u \in Range(d1[a]) THEN d1 ELSE MapPut(d1, a, Append(d1[a], u))

\* the is_duplicate mark_as_read computes from the document the cycle returned
IsDuplicate(modified, a, u) == a \in DOMAIN modified /\ u \in Range(modified[a])

\* a cycle that takes the file for missing and starts from the empty document
CurrentDataMissing(doc) == <<>>

\* ReadReceiptManager.get_read_count on the receipts document recs
GetReadCount(recs, a) == IF a \in DOMAIN recs THEN Len(recs[a]) ELSE 0

\* atomic_read_modify_write: the document the callback is applied to
CurrentData(doc) == doc

\* ------------------------------------------------------------ sweep
\* the timestamp of a record that has none, or one that fromisoformat rejects
NoTimestamp == -1

\* datetime.fromisoformat(ann_data.get('timestamp', '')) returns
ParseOk(ts) == ts >= 0

CutoffDate == Now - ANNOUNCEMENT_RETENTION_DAYS

\* a sweep that also drops the announcements made exactly at the cutoff
AnnouncementsToDeleteInclusive(anns) ==
    {a \in DOMAIN anns :
        IF ParseOk(anns[a].timestamp) THEN anns[a].timestamp <= CutoffDate ELSE TRUE}

\* a sweep that skips the records whose timestamp does not parse
AnnouncementsToDeleteSkipInvalid(anns) ==
    {a \in DOMAIN anns : ParseOk(anns[a].timestamp) /\ anns[a].timestamp < CutoffDate}

\* announcements_to_delete of cleanup_old_announcements
AnnouncementsToDelete(anns) ==
    {a \in DOMAIN anns :
        IF ParseOk(anns[a].timestamp) THEN anns[a].timestamp < CutoffDate ELSE TRUE}

\* the announcements and the receipts cleanup_old_announcements is left with
SweepAnnouncements(anns) ==
    [a \in (DOMAIN anns) \ AnnouncementsToDelete(anns) |-> anns[a]]

\* a sweep that leaves the receipts as they are
SweepReceiptsKept(anns, recs) == recs

SweepReceipts(anns, recs) ==
    [a \in (DOMAIN recs) \ AnnouncementsToDelete(anns) |-> recs[a]]

\* the record create_announcement builds
AnnouncementData(a) == [id |-> a, timestamp |-> Now]

\* ------------------------------------------------------------ files
Paths == {"subs", "ann", "rec"}

Files == <<subsFile, annFile, recFile, fstate, faults>>

AllOk == [p \in Paths |-> "ok"]

\* the document a file holds when it is well formed
Content(path) ==
    CASE path = "subs" -> subsFile
      [] path = "ann" -> annFile
      [] path = "rec" -> recFile

\* the empty document of a path: [] under the subscribers path, {} elsewhere
EmptyDocument(path) == IF path = "subs" THEN <<>> ELSE EmptyMap

\* a load_json that hands out whatever the file parses to
LoadJsonUnchecked(st, data, default) ==
    IF st \in {"ok", "scalar"} THEN data ELSE default

\* load_json(path, default) on a file in the state st that parses to data: an
\* absent file, a parse error and a parsed value that is neither a dict nor a
\* list all end in the default
LoadJson(st, data, default) == IF st = "ok" THEN data ELSE default

\* what a write of a document (isdoc) or of another JSON value can leave in
\* the file: "ok" the document, "scalar" the value, "error" the old content
\* (the file could not be opened), "torn" a truncated file
WriteResults(isdoc) ==
    {IF isdoc THEN "ok" ELSE "scalar"} \cup (IF faults > 0 THEN {"error", "torn"} ELSE {})

Stored(path, data, r) ==
    CASE r = "ok" -> data
      [] r = "error" -> Content(path)
      [] OTHER -> EmptyDocument(path)

\* _write_file_sync(path, data), or the write of atomic_read_modify_write,
\* with the result r
WriteFile(path, data, r) ==
    /\ subsFile' = IF path = "subs" THEN Stored(path, data, r) ELSE subsFile
    /\ annFile' = IF path = "ann" THEN Stored(path, data, r) ELSE annFile
    /\ recFile' = IF path = "rec" THEN Stored(path, data, r) ELSE recFile
    /\ fstate' = [fstate EXCEPT ![path] =
                     CASE r = "ok" -> "ok"
                       [] r = "scalar" -> "scalar"
                       [] r = "torn" -> "malformed"
                       [] OTHER -> @]
    /\ faults' = IF r \in {"error", "torn"} THEN faults - 1 ELSE faults

\* ------------------------------------------------------------ announcement records
\* a create_announcement that takes every dict for complete
RequiredFieldsAny(data) == TRUE

\* 'sender_id' in data and 'message_id' in data (0: the key is missing)
RequiredFields(data) == data.sender_id # 0 /\ data.message_id # 0

\* announcement_data of create_announcement, with the caption taken for the
\* content when the content is empty
AnnouncementRecord(a, data) ==
    LET content == Truncate(TextOr(data.content), CONTENT_LIMIT)
        caption == Truncate(TextOr(data.caption), CAPTION_LIMIT)
    IN  [id |-> a,
         timestamp |-> Now,
         type |-> IF data.type = "absent" THEN "text" ELSE data.type,
         sender_id |-> data.sender_id,
         message_id |-> data.message_id,
         content |-> IF content[2] = 0 /\ caption[2] # 0 THEN caption ELSE content,
         caption |-> caption]

\* ------------------------------------------------------------ steps

\* task t starts the call o and enters async with json_lock
Enter(t, o, label) ==
    /\ pc[t] = "idle"
    /\ op' = [op EXCEPT ![t] = o]
    /\ pc' = [pc EXCEPT ![t] = label]
    /\ json_lock' = Acquire(json_lock, t)
    /\ before' = [before EXCEPT ![t] = {s \in DOMAIN pc : pc[s] = "done"}]
    /\ UNCHANGED <<Files, loc, ret, store0>>

\* task t starts the call o, which returns r without touching the lock
Reject(t, o, r) ==
    /\ pc[t] = "idle"
    /\ op' = [op EXCEPT ![t] = o]
    /\ pc' = [pc EXCEPT ![t] = "done"]
    /\ ret' = [ret EXCEPT ![t] = r]
    /\ before' = [before EXCEPT ![t] = {s \in DOMAIN pc : pc[s] = "done"}]
    /\ UNCHANGED <<Files, json_lock, loc, store0>>

\* task t runs at label: it is there and not suspended in acquire()
At(t, label) == pc[t] = label /\ ~Blocked(t)

\* a handler that goes straight to the subscribers
HandlerEntryNoSweep(kind) == "list_load"

\* the first call of a handler that got past its checks:
\* cleanup_old_announcements()
HandlerEntry(kind) == "sweep_load_ann"

\* the statement task t goes on with when the call it is in returns at label:
\* a handler goes on with its next call, a call made on its own is done
Continuation(o, label) ==
    IF o.kind \in {"message", "broadcast"}
    THEN CASE label \in {"sweep_load_rec", "sweep_save_rec"} -> "list_load"
           [] label = "list_load" -> "snapshot"
           [] label = "create_save" -> "dispatch"
           [] OTHER -> "done"
    ELSE IF o.kind \in {"stats", "read_all", "read"}
    THEN CASE label \in {"sweep_load_rec", "sweep_save_rec"} -> "stats_load_ann"
           [] label = "stats_load_ann" -> "stats_load_rec"
           [] label = "stats_load_rec" -> "stats_load_subs"
           [] OTHER -> "done"
    ELSE IF o.kind = "press" /\ label = "rmw" THEN "press_answer"
    ELSE IF o.kind \in {"add_command", "remove_command"} /\ label = "rmw"
    THEN "command_answer"
    ELSE "done"

\* the statements that run outside async with json_lock
Unlocked ==
    {"done", "snapshot", "dispatch", "gather", "sleep", "press_answer", "command_answer"}

\* the call of task t returns r, leaving the lock; a handler enters its next
\* call
Return(t, r) ==
    LET next == Continuation(op[t], pc[t])
    IN  /\ pc' = [pc EXCEPT ![t] = next]
        /\ ret' = [ret EXCEPT ![t] = r]
        /\ json_lock' = IF next \in Unlocked
                        THEN Release(json_lock)
                        ELSE Acquire(Release(json_lock), t)

\* task t leaves the lock and enters it again for its next file access
Reenter(t, label) ==
    /\ pc' = [pc EXCEPT ![t] = label]
    /\ json_lock' = Acquire(Release(json_lock), t)

\* SubscriberManager.add_subscriber(u)
AddCall(t, u) ==
    LET o == [kind |-> "add", a |-> "", u |-> u]
    IN  IF ValidUserId(u) THEN Enter(t, o, "rmw") ELSE Reject(t, o, FALSE)

\* SubscriberManager.remove_subscriber(u)
RemoveCall(t, u) == Enter(t, [kind |-> "remove", a |-> "", u |-> u], "rmw")

\* ReadReceiptManager.mark_as_read(a, u)
MarkCall(t, a, u) ==
    LET o == [kind |-> "mark", a |-> a, u |-> u]
    IN  IF a # "" /\ ValidUserId(u)
        THEN Enter(t, o, "rmw")
        ELSE Reject(t, o, <<FALSE, FALSE>>)

\* the manager call that takes the task of o to atomic_read_modify_write: a
\* handler calls mark_as_read (handle_read_receipt), add_subscriber
\* (start_command, add_command) or remove_subscriber (remove_command)
CallKind(o) ==
    CASE o.kind = "press" -> "mark"
      [] o.kind \in {"start", "add_command"} -> "add"
      [] o.kind = "remove_command" -> "remove"
      [] OTHER -> o.kind

\* the file a manager call or a direct cycle works on
OpPath(o) ==
    CASE CallKind(o) \in {"add", "remove"} -> "subs"
      [] CallKind(o) = "mark" -> "rec"
      [] OTHER -> o.path

\* what the callback of the call o returns for the file state st and the
\* document data: a document, or something else (the callback "none" returns
\* None, the callback "same" returns the scalar it was given)
ModifyCallback(o, st, data) ==
    CASE CallKind(o) = "add" -> <<"doc", AddSubscriberModify(data, o.u)>>
      [] CallKind(o) = "remove" -> <<"doc", RemoveSubscriberModify(data, o.u)>>
      [] CallKind(o) = "mark" -> <<"doc", ModifyReceipts(data, o.a, o.u)>>
      [] o.kind = "update" /\ o.cb = "same" /\ st # "scalar" -> <<"doc", data>>
      [] OTHER -> <<"none", 0>>

\* a cycle that takes every callback result for a document
ValidModifiedAny(m) == TRUE

\* isinstance(modified_data, (dict, list)) in atomic_read_modify_write
ValidModified(m) == m[1] = "doc"

\* a cycle that takes an unparsable file for a parsable one
ParsesAlways(st) == TRUE

\* json.load in atomic_read_modify_write: it raises on an unparsable file
Parses(st) == st # "malformed"

\* what the caller of the cycle returns when the cycle returned (False, None)
CycleFailed(o) ==
    CASE CallKind(o) = "mark" -> <<FALSE, FALSE>>
      [] o.kind = "update" -> <<FALSE, <<>>>>
      [] OTHER -> FALSE

\* what the caller of the cycle returns when the cycle returned (True, modified)
CycleDone(o, modified) ==
    CASE CallKind(o) = "mark" -> <<TRUE, IsDuplicate(modified, o.a, o.u)>>
      [] o.kind = "update" -> <<TRUE, <<modified>>>>
      [] OTHER -> TRUE

\* the locked body of atomic_read_modify_write and the return of its caller
AtomicReadModifyWrite(t) ==
    /\ At(t, "rmw")
    /\ LET path == OpPath(op[t])
           m == ModifyCallback(op[t], fstate[path], CurrentData(Content(path)))
       IN  IF Parses(fstate[path]) /\ ValidModified(m)
           THEN \E r \in WriteResults(m[1] = "doc") :
                    /\ WriteFile(path, m[2], r)
                    /\ Return(t, IF r \in {"ok", "scalar"}
                                 THEN CycleDone(op[t], m[2]) ELSE CycleFailed(op[t]))
           ELSE /\ Return(t, CycleFailed(op[t]))
                /\ UNCHANGED Files
    /\ UNCHANGED <<op, loc, store0, before>>

\* atomic_read_modify_write(path, cb) called with the callback cb
UpdateCall(t, path, cb) ==
    Enter(t, [kind |-> "update", a |-> "", u |-> 0, path |-> path, cb |-> cb], "rmw")

\* load_json(path, default)
LoadCall(t, path, default) ==
    Enter(t, [kind |-> "load", a |-> "", u |-> 0, path |-> path, default |-> default],
          "load")

\* default if default is not None else ([] if 'subscribers' in file_path else {})
ResolveDefault(path, default) ==
    IF default # PyNone THEN default
    ELSE IF path = "subs" THEN <<"list", <<>>>> ELSE <<"dict", {}>>

\* the locked body of load_json
Loaded(t) ==
    /\ At(t, "load")
    /\ LET path == op[t].path
       IN  Return(t, LoadJson(fstate[path], JsonLoad(Content(path)),
                              ResolveDefault(path, op[t].default)))
    /\ UNCHANGED <<Files, op, loc, store0, before>>

\* save_json(path, data)
SaveCall(t, path, data) ==
    Enter(t, [kind |-> "save", a |-> "", u |-> 0, path |-> path, data |-> data], "save")

\* a save_json that writes whatever it is given
ValidDataAny(data) == TRUE

\* isinstance(data, (dict, list)) in save_json
ValidData(data) == PyIsDocument(data)

\* the locked body of save_json
Saved(t) ==
    /\ At(t, "save")
    /\ IF ValidData(op[t].data)
       THEN \E r \in WriteResults(PyIsDocument(op[t].data)) :
                /\ WriteFile(op[t].path, JsonDump(op[t].data), r)
                /\ Return(t, r \in {"ok", "scalar"})
       ELSE /\ Return(t, FALSE)
            /\ UNCHANGED Files
    /\ UNCHANGED <<op, loc, store0, before>>

\* SubscriberManager.get_all_subscribers()
ListCall(t) == Enter(t, [kind |-> "list", a |-> "", u |-> 0], "list_load")

ListLoaded(t) ==
    /\ At(t, "list_load")
    /\ Return(t, SelectSeq(LoadJson(fstate["subs"], subsFile, <<>>), ValidUserId))
    /\ UNCHANGED <<Files, op, loc, store0, before>>

\* AnnouncementManager.create_announcement(a, data), data with its required fields
CreateCall(t, a) ==
    LET o == [kind |-> "create", a |-> a, u |-> 0]
    IN  IF a # "" THEN Enter(t, o, "create_load") ELSE Reject(t, o, FALSE)

\* load_json returns; the record is put into the loaded copy; save_json is entered
CreateLoaded(t) ==
    /\ At(t, "create_load")
    /\ loc' = [loc EXCEPT ![t].anns = MapPut(LoadJson(fstate["ann"], annFile, EmptyMap),
                                             op[t].a, AnnouncementData(op[t].a))]
    /\ Reenter(t, "create_save")
    /\ UNCHANGED <<Files, op, ret, store0, before>>

\* save_json writes the copy
CreateSaved(t) ==
    /\ At(t, "create_save")
    /\ \E r \in WriteResults(TRUE) :
           /\ WriteFile("ann", loc[t].anns, r)
           /\ Return(t, r = "ok")
    /\ UNCHANGED <<op, loc, store0, before>>

\* AnnouncementManager.create_announcement(a, data) with the fields of data
CreateAnnouncementCall(t, a, data) ==
    LET o == [kind |-> "create", a |-> a, u |-> 0, data |-> data]
    IN  IF a # "" THEN Enter(t, o, "create_check") ELSE Reject(t, o, FALSE)

\* load_json returns; data without its required fields ends the call;
\* otherwise the record is put into the loaded copy and save_json is entered
CreateAnnouncementLoaded(t) ==
    /\ At(t, "create_check")
    /\ LET anns == LoadJson(fstate["ann"], annFile, <<>>)
       IN  IF RequiredFields(op[t].data)
           THEN /\ loc' = [loc EXCEPT ![t].anns =
                              DictSet(anns, op[t].a, AnnouncementRecord(op[t].a, op[t].data))]
                /\ Reenter(t, "create_save")
                /\ UNCHANGED ret
           ELSE /\ Return(t, FALSE)
                /\ UNCHANGED loc
    /\ UNCHANGED <<Files, op, store0, before>>

\* AnnouncementManager.get_announcement(a)
GetCall(t, a) ==
    LET o == [kind |-> "get", a |-> a, u |-> 0]
    IN  IF a # "" THEN Enter(t, o, "get_load") ELSE Reject(t, o, <<>>)

GetLoaded(t) ==
    /\ At(t, "get_load")
    /\ Return(t, DictGet(LoadJson(fstate["ann"], annFile, <<>>), op[t].a))
    /\ UNCHANGED <<Files, op, loc, store0, before>>

\* AnnouncementManager.announcement_exists(a)
ExistsCall(t, a) ==
    LET o == [kind |-> "exists", a |-> a, u |-> 0]
    IN  Enter(t, o, "exists_load")

ExistsLoaded(t) ==
    /\ At(t, "exists_load")
    /\ Return(t, op[t].a \in Keys(LoadJson(fstate["ann"], annFile, <<>>)))
    /\ UNCHANGED <<Files, op, loc, store0, before>>

\* AnnouncementManager.get_announcements_count()
CountCall(t) ==
    LET o == [kind |-> "count", a |-> "", u |-> 0]
    IN  Enter(t, o, "count_load")

CountLoaded(t) ==
    /\ At(t, "count_load")
    /\ Return(t, Len(LoadJson(fstate["ann"], annFile, <<>>)))
    /\ UNCHANGED <<Files, op, loc, store0, before>>

\* the entries whose record names its own key, in the order of the document
ValidAnnouncements(d) == SelectSeq(d, LAMBDA e : e.rec.id = e.key)

\* an insertion that puts the entry before the entries of its timestamp
InsertBeforeTies(sorted, e) ==
    LET k == Cardinality({i \in DOMAIN sorted : sorted[i].rec.timestamp > e.rec.timestamp})
    IN  SubSeq(sorted, 1, k) \o <<e>> \o SubSeq(sorted, k + 1, Len(sorted))

\* e goes behind every entry that is not older than it
InsertByTimestamp(sorted, e) ==
    LET k == Cardinality({i \in DOMAIN sorted : sorted[i].rec.timestamp >= e.rec.timestamp})
    IN  SubSeq(sorted, 1, k) \o <<e>> \o SubSeq(sorted, k + 1, Len(sorted))

\* sorted(items, key=timestamp, reverse=True): a stable sort, so entries of
\* one timestamp keep the order they had
RECURSIVE SortedItems(_)
SortedItems(d) ==
    IF d = <<>> THEN <<>>
    ELSE InsertByTimestamp(SortedItems(SubSeq(d, 1, Len(d) - 1)), d[Len(d)])

\* AnnouncementManager.get_all_announcements()
ListAllCall(t) ==
    LET o == [kind |-> "list_all", a |-> "", u |-> 0]
    IN  Enter(t, o, "list_all_load")

ListAllLoaded(t) ==
    /\ At(t, "list_all_load")
    /\ Return(t, SortedItems(ValidAnnouncements(LoadJson(fstate["ann"], annFile, <<>>))))
    /\ UNCHANGED <<Files, op, loc, store0, before>>

\* cleanup_old_announcements()
SweepCall(t) == Enter(t, [kind |-> "sweep", a |-> "", u |-> 0], "sweep_load_ann")

SweepLoadedAnn(t) ==
    /\ At(t, "sweep_load_ann")
    /\ loc' = [loc EXCEPT ![t].anns = LoadJson(fstate["ann"], annFile, EmptyMap)]
    /\ Reenter(t, "sweep_load_rec")
    /\ UNCHANGED <<Files, op, ret, store0, before>>

\* a sweep that saves whatever it counted
ShouldSaveAlways(deleted_count) == TRUE

\* if deleted_count > 0: the copies are saved
ShouldSave(deleted_count) == deleted_count > 0

\* the receipts are loaded; a sweep that loaded no announcement returns 0; the
\* expired announcements and their receipts are dropped from the copies; the
\* copies are saved only if something was dropped
SweepLoadedRec(t) ==
    /\ At(t, "sweep_load_rec")
    /\ LET anns == loc[t].anns
           recs == LoadJson(fstate["rec"], recFile, EmptyMap)
           n == Cardinality(AnnouncementsToDelete(anns))
       IN  IF anns # EmptyMap /\ ShouldSave(n)
           THEN /\ loc' = [loc EXCEPT ![t].anns = SweepAnnouncements(anns),
                                      ![t].recs = SweepReceipts(anns, recs),
                                      ![t].n = n]
                /\ Reenter(t, "sweep_save_ann")
                /\ UNCHANGED ret
           ELSE /\ loc' = [loc EXCEPT ![t].recs = recs, ![t].swept = TRUE]
                /\ Return(t, IF anns = EmptyMap THEN 0 ELSE n)
    /\ UNCHANGED <<Files, op, store0, before>>

\* save_json(ANNOUNCEMENTS_FILE, ...): its result is dropped
SweepSavedAnn(t) ==
    /\ At(t, "sweep_save_ann")
    /\ \E r \in WriteResults(TRUE) : WriteFile("ann", loc[t].anns, r)
    /\ Reenter(t, "sweep_save_rec")
    /\ UNCHANGED <<op, loc, ret, store0, before>>

\* save_json(READ_RECEIPTS_FILE, ...): its result is dropped, the count returned
SweepSavedRec(t) ==
    /\ At(t, "sweep_save_rec")
    /\ \E r \in WriteResults(TRUE) : WriteFile("rec", loc[t].recs, r)
    /\ Return(t, loc[t].n)
    /\ loc' = [loc EXCEPT ![t].swept = TRUE]
    /\ UNCHANGED <<op, store0, before>>

\* ------------------------------------------------------------ handlers
ADMIN_ID == 1
BATCH_SIZE == 20

\* handle_admin_message for a message of sender u; typed: the message is a
\* text, photo, document, audio or video, so that announcement_data has a
\* type; down: the subscribers a send to whom raises
MessageCall(t, u, typed, down) ==
    LET o == [kind |-> "message", a |-> "a2", u |-> u, typed |-> typed, down |-> down]
    IN  IF u = ADMIN_ID
        THEN Enter(t, o, HandlerEntry("message"))
        ELSE Reject(t, o, PyNone)

\* broadcast_command of sender u, with or without a text after the command
BroadcastCall(t, u, args, down) ==
    LET o == [kind |-> "broadcast", a |-> "a2", u |-> u, args |-> args, down |-> down]
    IN  IF u = ADMIN_ID /\ args
        THEN Enter(t, o, HandlerEntry("broadcast"))
        ELSE Reject(t, o, PyNone)

\* stats_command of sender u
StatsCall(t, u) ==
    LET o == [kind |-> "stats", a |-> "", u |-> u]
    IN  IF u = ADMIN_ID
        THEN Enter(t, o, HandlerEntry("stats"))
        ELSE Reject(t, o, PyNone)

\* cleanup_command of sender u: the admin is asked to confirm, with the
\* buttons cleanup_confirm and cleanup_cancel
CleanupCommand(t, u) ==
    LET o == [kind |-> "cleanup_command", a |-> "", u |-> u]
    IN  Reject(t, o, PyNone)

\* handle_cleanup_callback for a button of cleanup_command pressed by u
CleanupCallback(t, u, data) ==
    LET o == [kind |-> "cleanup", a |-> "", u |-> u, data |-> data]
    IN  IF u = ADMIN_ID /\ data = "cleanup_confirm"
        THEN Enter(t, o, HandlerEntry("cleanup"))
        ELSE Reject(t, o, PyNone)

\* a check that takes every list for one with subscribers
NoSubscribersNever(subscribers) == FALSE

\* if not subscribers
NoSubscribers(subscribers) == subscribers = <<>>

\* subscribers = await get_all_subscribers() has returned: without
\* subscribers the handler replies and returns, otherwise it calls
\* create_announcement
Snapshot(t) ==
    /\ At(t, "snapshot")
    /\ LET subscribers == ret[t]
       IN  IF NoSubscribers(subscribers)
           THEN /\ pc' = [pc EXCEPT ![t] = "done"]
                /\ ret' = [ret EXCEPT ![t] = PyNone]
                /\ UNCHANGED <<loc, json_lock>>
           ELSE /\ loc' = [loc EXCEPT ![t].bc.subscribers = subscribers,
                                      ![t].bc.attempts = [p \in DOMAIN subscribers |-> 0]]
                /\ pc' = [pc EXCEPT ![t] = "create_load"]
                /\ json_lock' = Acquire(json_lock, t)
                /\ UNCHANGED ret
    /\ UNCHANGED <<Files, op, store0, before>>

\* the places of subscribers[i:i + BATCH_SIZE]
Batch(i, n) == (i + 1)..(IF i + BATCH_SIZE < n THEN i + BATCH_SIZE ELSE n)

\* a loop that pauses after every full batch
MoreBatchesInclusive(i, n) == i + BATCH_SIZE <= n

\* if i + BATCH_SIZE < len(subscribers)
MoreBatches(i, n) == i + BATCH_SIZE < n

\* what gather gets from the send to subscriber_id: handle_admin_message
\* sends with send_message_to_subscriber, which returns True, or False after
\* any exception (a refused send, a missing type); broadcast_command sends
\* with bot.send_message, which returns the message or raises
SendResult(o, subscriber_id) ==
    IF o.kind = "message"
    THEN IF o.typed /\ subscriber_id \notin o.down THEN "true" ELSE "false"
    ELSE IF subscriber_id \notin o.down THEN "message" ELSE "exception"

\* a tally that takes every result for a success
SucceededAlways(o, result) == TRUE

\* result is True; not isinstance(result, Exception)
Succeeded(o, result) ==
    IF o.kind = "message" THEN result = "true" ELSE result # "exception"

\* for i in range(0, len(subscribers), BATCH_SIZE): the sends of the next
\* batch are started and gathered; after the last batch the report is sent
Dispatch(t) ==
    /\ At(t, "dispatch")
    /\ LET bc == loc[t].bc
           n == Len(bc.subscribers)
       IN  IF bc.i < n
           THEN /\ loc' = [loc EXCEPT ![t].bc =
                              [bc EXCEPT !.pending = Batch(bc.i, n),
                                         !.results = EmptyMap,
                                         !.attempts = [p \in DOMAIN bc.attempts |->
                                             IF p \in Batch(bc.i, n)
                                             THEN bc.attempts[p] + 1
                                             ELSE bc.attempts[p]],
                                         !.batches = bc.batches + 1]]
                /\ pc' = [pc EXCEPT ![t] = "gather"]
                /\ UNCHANGED ret
           ELSE /\ pc' = [pc EXCEPT ![t] = "done"]
                /\ ret' = [ret EXCEPT ![t] =
                              [successful_sends |-> bc.successful_sends,
                               failed_sends |-> bc.failed_sends]]
                /\ UNCHANGED loc
    /\ UNCHANGED <<Files, json_lock, op, store0, before>>

\* one send of the batch finishes; the sends are independent of each other,
\* and they finish from either end of the batch
SendDone(t) ==
    /\ At(t, "gather")
    /\ LET bc == loc[t].bc
       IN  \E p \in bc.pending :
               /\ \/ \A q \in bc.pending : p <= q
                  \/ \A q \in bc.pending : p >= q
               /\ loc' = [loc EXCEPT ![t].bc =
                             [bc EXCEPT !.pending = bc.pending \ {p},
                                        !.results = MapPut(bc.results, p,
                                            SendResult(op[t], bc.subscribers[p]))]]
    /\ UNCHANGED <<Files, json_lock, op, pc, ret, store0, before>>

\* gather returns when every send of the batch has finished; the results
\* are tallied in the order of the batch; the loop sleeps if more
\* subscribers are left
Collect(t) ==
    /\ At(t, "gather")
    /\ loc[t].bc.pending = {}
    /\ LET bc == loc[t].bc
           n == Len(bc.subscribers)
           places == [k \in 1..Cardinality(Batch(bc.i, n)) |-> bc.i + k]
           failed == SelectSeq(places, LAMBDA p : ~Succeeded(op[t], bc.results[p]))
       IN  /\ loc' = [loc EXCEPT ![t].bc =
                         [bc EXCEPT !.successful_sends =
                                        bc.successful_sends + Len(places) - Len(failed),
                                    !.failed_sends = bc.failed_sends \o
                                        [k \in DOMAIN failed |-> bc.subscribers[failed[k]]],
                                    !.i = IF MoreBatches(bc.i, n)
                                          THEN bc.i ELSE bc.i + BATCH_SIZE]]
           /\ pc' = [pc EXCEPT ![t] = IF MoreBatches(bc.i, n) THEN "sleep" ELSE "dispatch"]
    /\ UNCHANGED <<Files, json_lock, op, ret, store0, before>>

\* await asyncio.sleep(1.0), then the next turn of the loop
Pause(t) ==
    /\ At(t, "sleep")
    /\ loc' = [loc EXCEPT ![t].bc.pauses = loc[t].bc.pauses + 1,
                          ![t].bc.i = loc[t].bc.i + BATCH_SIZE]
    /\ pc' = [pc EXCEPT ![t] = "dispatch"]
    /\ UNCHANGED <<Files, json_lock, op, ret, store0, before>>

\* stats_command: announcements = await get_all_announcements()
StatsLoadedAnn(t) ==
    /\ At(t, "stats_load_ann")
    /\ loc' = [loc EXCEPT ![t].anns = LoadJson(fstate["ann"], annFile, EmptyMap)]
    /\ Return(t, ret[t])
    /\ UNCHANGED <<Files, op, store0, before>>

\* receipts = await get_all_receipts()
StatsLoadedRec(t) ==
    /\ At(t, "stats_load_rec")
    /\ loc' = [loc EXCEPT ![t].recs = LoadJson(fstate["rec"], recFile, EmptyMap)]
    /\ Return(t, ret[t])
    /\ UNCHANGED <<Files, op, store0, before>>

\* total_students = await count_subscribers(); the report is sent
StatsLoadedSubs(t) ==
    /\ At(t, "stats_load_subs")
    /\ Return(t, [announcements |-> DOMAIN loc[t].anns,
                  receipts |-> loc[t].recs,
                  total_students |->
                      Len(SelectSeq(LoadJson(fstate["subs"], subsFile, <<>>), ValidUserId))])
    /\ UNCHANGED <<Files, op, loc, store0, before>>

\* what handle_read_receipt answers when it stops before mark_as_read, or
\* after it: <<notice, read_count, total_students>>
Answer(notice) == <<notice, 0, 0>>

\* handle_read_receipt for a button pressed by u; read: the callback data
\* starts with read_, and a is what follows
PressCall(t, u, a, read) ==
    LET o == [kind |-> "press", a |-> a, u |-> u, read |-> read]
    IN  IF read
        THEN Enter(t, o, "press_exists")
        ELSE Reject(t, o, Answer("invalid"))

\* if not await announcement_exists(announcement_id): the handler answers
\* that the announcement is gone; otherwise it reads the subscribers
PressExists(t) ==
    /\ At(t, "press_exists")
    /\ IF op[t].a \in DOMAIN LoadJson(fstate["ann"], annFile, EmptyMap)
       THEN Reenter(t, "press_subs") /\ UNCHANGED ret
       ELSE Return(t, Answer("not_found"))
    /\ UNCHANGED <<Files, op, loc, store0, before>>

\* a check that lets every sender through
MayAcknowledgeAnyone(u, subscribers) == TRUE

\* not (user_id not in subscribers and user_id != ADMIN_ID)
MayAcknowledge(u, subscribers) == u \in Range(subscribers) \/ u = ADMIN_ID

\* subscribers = await get_all_subscribers(): a sender who is neither a
\* subscriber nor the admin is turned away; otherwise mark_as_read is called,
\* which returns (False, False) for an id it takes for invalid
PressSubs(t) ==
    /\ At(t, "press_subs")
    /\ LET subscribers == SelectSeq(LoadJson(fstate["subs"], subsFile, <<>>), ValidUserId)
       IN  IF ~MayAcknowledge(op[t].u, subscribers)
           THEN Return(t, Answer("not_subscribed"))
           ELSE IF op[t].a # "" /\ ValidUserId(op[t].u)
           THEN Reenter(t, "rmw") /\ UNCHANGED ret
           ELSE Return(t, Answer("error"))
    /\ UNCHANGED <<Files, op, loc, store0, before>>

\* success, is_duplicate = await mark_as_read(...) has returned: if success
\* the first-time acknowledgement is prepared, elif is_duplicate the notice
\* of a repeated click, else the error is answered
PressAnswer(t) ==
    /\ At(t, "press_answer")
    /\ LET success == ret[t][1]
           is_duplicate == ret[t][2]
       IN  IF success \/ is_duplicate
           THEN /\ loc' = [loc EXCEPT ![t].notice = IF success THEN "first" ELSE "repeat"]
                /\ pc' = [pc EXCEPT ![t] = "press_count"]
                /\ json_lock' = Acquire(json_lock, t)
                /\ UNCHANGED ret
           ELSE /\ pc' = [pc EXCEPT ![t] = "done"]
                /\ ret' = [ret EXCEPT ![t] = Answer("error")]
                /\ UNCHANGED <<loc, json_lock>>
    /\ UNCHANGED <<Files, op, store0, before>>

\* read_count = await get_read_count(announcement_id)
PressCount(t) ==
    /\ At(t, "press_count")
    /\ loc' = [loc EXCEPT ![t].n =
                  GetReadCount(LoadJson(fstate["rec"], recFile, EmptyMap), op[t].a)]
    /\ Reenter(t, "press_total")
    /\ UNCHANGED <<Files, op, ret, store0, before>>

\* total_students = await count_subscribers(); the button and the alert, or
\* the notice, are sent
PressTotal(t) ==
    /\ At(t, "press_total")
    /\ Return(t, <<loc[t].notice, loc[t].n,
                   Len(SelectSeq(LoadJson(fstate["subs"], subsFile, <<>>), ValidUserId))>>)
    /\ UNCHANGED <<Files, op, loc, store0, before>>

\* delete_command with the announcement id a, sent by the admin
DeleteCall(t, a) == Enter(t, [kind |-> "delete", a |-> a, u |-> 0], "delete_load_ann")

DeleteLoadedAnn(t) ==
    /\ At(t, "delete_load_ann")
    /\ loc' = [loc EXCEPT ![t].anns = LoadJson(fstate["ann"], annFile, EmptyMap)]
    /\ Reenter(t, "delete_load_rec")
    /\ UNCHANGED <<Files, op, ret, store0, before>>

\* the receipts are loaded; an unknown id ends the command; otherwise the
\* announcement and its receipts are dropped from the copies
DeleteLoadedRec(t) ==
    /\ At(t, "delete_load_rec")
    /\ LET recs == LoadJson(fstate["rec"], recFile, EmptyMap)
       IN  IF op[t].a \notin DOMAIN loc[t].anns
           THEN /\ loc' = [loc EXCEPT ![t].recs = recs]
                /\ Return(t, FALSE)
           ELSE /\ loc' = [loc EXCEPT ![t].anns = MapDel(loc[t].anns, op[t].a),
                                      ![t].recs = MapDel(recs, op[t].a)]
                /\ Reenter(t, "delete_save_ann")
                /\ UNCHANGED ret
    /\ UNCHANGED <<Files, op, store0, before>>

\* success1 = await save_json(ANNOUNCEMENTS_FILE, announcements)
DeleteSavedAnn(t) ==
    /\ At(t, "delete_save_ann")
    /\ \E r \in WriteResults(TRUE) :
           /\ WriteFile("ann", loc[t].anns, r)
           /\ loc' = [loc EXCEPT ![t].ok = (r = "ok")]
    /\ Reenter(t, "delete_save_rec")
    /\ UNCHANGED <<op, ret, store0, before>>

\* success2 = await save_json(READ_RECEIPTS_FILE, receipts); the reply tells
\* whether both saves succeeded
DeleteSavedRec(t) ==
    /\ At(t, "delete_save_rec")
    /\ \E r \in WriteResults(TRUE) :
           /\ WriteFile("rec", loc[t].recs, r)
           /\ Return(t, loc[t].ok /\ r = "ok")
    /\ UNCHANGED <<op, loc, store0, before>>

\* delete_command of sender u for the announcement id a; args: an id follows
\* the command
DeleteCommand(t, u, args, a) ==
    LET o == [kind |-> "delete", a |-> a, u |-> u]
    IN  IF u = ADMIN_ID /\ args
        THEN Enter(t, o, "delete_load_ann")
        ELSE Reject(t, o, PyNone)

\* the user an event comes from (update.effective_user.id): add_command and
\* remove_command name another user in their argument
Sender(o) == IF "sender" \in DOMAIN o THEN o.sender ELSE o.u

\* start_command of sender u: the admin is greeted, anyone else is added to
\* the subscribers
StartCommand(t, u) ==
    LET o == [kind |-> "start", a |-> "", u |-> u]
    IN  IF u = ADMIN_ID THEN Reject(t, o, PyNone)
        ELSE IF ValidUserId(u) THEN Enter(t, o, "rmw")
        ELSE Reject(t, o, FALSE)

\* add_command of sender u for the student id; args: a number follows the
\* command
AddCommand(t, u, args, id) ==
    LET o == [kind |-> "add_command", a |-> "", u |-> id, sender |-> u]
    IN  IF u = ADMIN_ID /\ args /\ id > 0
        THEN IF ValidUserId(id) THEN Enter(t, o, "rmw") ELSE Reject(t, o, FALSE)
        ELSE Reject(t, o, PyNone)

\* remove_command of sender u for the student id
RemoveCommand(t, u, args, id) ==
    LET o == [kind |-> "remove_command", a |-> "", u |-> id, sender |-> u]
    IN  IF u = ADMIN_ID /\ args
        THEN Enter(t, o, "rmw")
        ELSE Reject(t, o, PyNone)

\* success = await add_subscriber(...) or remove_subscriber(...) has
\* returned: after a success the subscribers are counted for the reply
CommandAnswer(t) ==
    /\ At(t, "command_answer")
    /\ IF ret[t]
       THEN /\ pc' = [pc EXCEPT ![t] = "command_total"]
            /\ json_lock' = Acquire(json_lock, t)
       ELSE /\ pc' = [pc EXCEPT ![t] = "done"]
            /\ UNCHANGED json_lock
    /\ UNCHANGED <<Files, op, loc, ret, store0, before>>

\* total_count = await count_subscribers(); the reply is sent
CommandTotal(t) ==
    /\ At(t, "command_total")
    /\ loc' = [loc EXCEPT ![t].n =
                  Len(SelectSeq(LoadJson(fstate["subs"], subsFile, <<>>), ValidUserId))]
    /\ Return(t, ret[t])
    /\ UNCHANGED <<Files, op, store0, before>>

\* read_all_command of sender u: the admin gets the report of
\* get_all_announcements, get_all_receipts and count_subscribers
ReadAllCommand(t, u) ==
    LET o == [kind |-> "read_all", a |-> "", u |-> u]
    IN  IF u = ADMIN_ID
        THEN Enter(t, o, "stats_load_ann")
        ELSE Reject(t, o, PyNone)

\* read_command of sender u for the announcement id a
ReadCommand(t, u, args, a) ==
    LET o == [kind |-> "read", a |-> a, u |-> u]
    IN  IF u = ADMIN_ID /\ args
        THEN Enter(t, o, "read_load")
        ELSE Reject(t, o, PyNone)

\* announcement = await get_announcement(a): without it the command ends;
\* otherwise the receipts and the subscribers are read for the report
ReadLoaded(t) ==
    /\ At(t, "read_load")
    /\ LET anns == LoadJson(fstate["ann"], annFile, EmptyMap)
       IN  IF op[t].a \in DOMAIN anns
           THEN /\ loc' = [loc EXCEPT ![t].anns = anns]
                /\ Reenter(t, "stats_load_rec")
                /\ UNCHANGED ret
           ELSE /\ Return(t, PyNone)
                /\ UNCHANGED loc
    /\ UNCHANGED <<Files, op, store0, before>>

\* subscribers_command of sender u: the admin gets get_all_subscribers()
SubscribersCommand(t, u) ==
    LET o == [kind |-> "subscribers", a |-> "", u |-> u]
    IN  IF u = ADMIN_ID
        THEN Enter(t, o, "list_load")
        ELSE Reject(t, o, PyNone)

\* ------------------------------------------------------------ specifications
OldDay == CutoffDate - 1
NewDay == Now - 1

\* stores the program can have left behind: a1 was created before the retention
\* window and a2 within it; the announcements have no receipt entry or one
\* receipt each
InitTimestamp(a) == IF a = "a1" THEN OldDay ELSE NewDay

InitAnns ==
    {[a \in S |-> [id |-> a, timestamp |-> InitTimestamp(a)]] : S \in SUBSET AnnIds}

InitRecs(anns) == {EmptyMap, [a \in DOMAIN anns |-> <<1>>]}

InitSubs == {<<>>, <<1>>, <<2, 1>>}

TypeInit(P) ==
    /\ json_lock = [owner |-> NoTask, queue |-> <<>>]
    /\ op = [t \in P |-> NoOp]
    /\ pc = [t \in P |-> "idle"]
    /\ loc = [t \in P |-> NoLocals]
    /\ ret = [t \in P |-> <<>>]
    /\ store0 = [subs |-> subsFile, anns |-> annFile, recs |-> recFile]
    /\ before = [t \in P |-> {}]

\* the announcement store: broadcasts being recorded, acknowledged, swept
\* and deleted by concurrent handlers
StoreInit ==
    /\ fstate = AllOk
    /\ faults = 0
    /\ subsFile = <<>>
    /\ annFile \in InitAnns
    /\ recFile \in InitRecs(annFile)
    /\ TypeInit(Handlers)

StoreNext ==
    \E t \in Handlers :
        \/ \E a \in AnnIds, u \in Users : MarkCall(t, a, u)
        \/ \E a \in AnnIds : CreateCall(t, a)
        \/ SweepCall(t)
        \/ \E a \in AnnIds : DeleteCall(t, a)
        \/ AtomicReadModifyWrite(t)
        \/ CreateLoaded(t)
        \/ CreateSaved(t)
        \/ SweepLoadedAnn(t)
        \/ SweepLoadedRec(t)
        \/ SweepSavedAnn(t)
        \/ SweepSavedRec(t)
        \/ DeleteLoadedAnn(t)
        \/ DeleteLoadedRec(t)
        \/ DeleteSavedAnn(t)
        \/ DeleteSavedRec(t)

StoreSpec == StoreInit /\ [][StoreNext]_vars

\* the subscriber set and the receipts under concurrent manager calls
SubsInit ==
    /\ fstate = AllOk
    /\ faults = 0
    /\ subsFile \in InitSubs
    /\ annFile = EmptyMap
    /\ recFile \in {EmptyMap, [a \in {"a1"} |-> <<1>>]}
    /\ TypeInit(Tasks)

SubsNext ==
    \E t \in Tasks :
        \/ \E u \in UserInputs : AddCall(t, u)
        \/ \E u \in Users : RemoveCall(t, u)
        \/ \E a \in AnnIds, u \in UserInputs : MarkCall(t, a, u)
        \/ ListCall(t)
        \/ AtomicReadModifyWrite(t)
        \/ ListLoaded(t)

SubsSpec == SubsInit /\ [][SubsNext]_vars

\* the sweep and the mutator on stores with records of every age, with
\* records without a usable timestamp, with an unparsable file, and with
\* writes that can fail
IoTimestamps == {NoTimestamp, CutoffDate - 1, CutoffDate, CutoffDate + 1}

IoAnns ==
    {[a \in S |-> [id |-> a, timestamp |-> ts[a]]] :
        S \in SUBSET AnnIds, ts \in [AnnIds -> IoTimestamps]}

IoRecs(anns) == {[a \in S |-> <<1>>] : S \in SUBSET DOMAIN anns}

\* the paths atomic_read_modify_write is called with
UpdatePaths == {"subs", "rec"}

IoInit ==
    /\ faults = MaxFaults
    /\ \/ /\ fstate = AllOk
          /\ subsFile = <<>>
          /\ annFile \in IoAnns
          /\ recFile \in IoRecs(annFile)
       \/ /\ \E p \in UpdatePaths : fstate = [AllOk EXCEPT ![p] = "malformed"]
          /\ subsFile = <<>>
          /\ annFile = [a \in {"a1"} |-> [id |-> a, timestamp |-> OldDay]]
          /\ recFile = EmptyMap
    /\ TypeInit(Handlers)

IoNext ==
    \E t \in Handlers :
        \/ SweepCall(t)
        \/ \E p \in UpdatePaths, cb \in {"same", "none"} : UpdateCall(t, p, cb)
        \/ AddCall(t, 1)
        \/ MarkCall(t, "a1", 1)
        \/ AtomicReadModifyWrite(t)
        \/ SweepLoadedAnn(t)
        \/ SweepLoadedRec(t)
        \/ SweepSavedAnn(t)
        \/ SweepSavedRec(t)

IoSpec == IoInit /\ [][IoNext]_vars

\* the document store: load_json and save_json called with values of every
\* shape on files that are well formed, absent, unparsable or hold a scalar
PyScalars == {<<"int", 1>>, <<"str", "x">>, PyNone}

PyKeys == {<<"str", "k">>, <<"str", "1">>, <<"int", 1>>}

\* the lists of at most one element and the dicts of at most one key over V
PyLists(V) == {<<"list", <<>>>>} \cup {<<"list", <<v>>>> : v \in V}

PyDicts(V) == {<<"dict", {}>>} \cup {<<"dict", {<<k, v>>}>> : k \in PyKeys, v \in V}

PyNested == PyScalars \cup PyLists({<<"bool", TRUE>>}) \cup PyDicts({PyNone})

PyDocuments == PyLists(PyNested) \cup PyDicts(PyNested)

\* what save_json is given
SaveInputs == PyDocuments \cup PyScalars

\* the defaults load_json is given: none, a list, a dict
LoadDefaults == {PyNone, <<"list", <<<<"int", 1>>>>>>, <<"dict", {}>>}

DocPaths == {"subs", "ann"}

FileStates == {"ok", "absent", "malformed", "scalar"}

\* the text of a file in the state st: a document, a scalar, or nothing usable
InitText(st) ==
    CASE st = "ok" -> <<"object", {<<"k", <<"array", <<<<"number", 1>>>>>>>>}>>
      [] st = "scalar" -> <<"number", 1>>
      [] OTHER -> <<"null", 0>>

DocInit ==
    /\ faults = MaxFaults
    /\ fstate \in {f \in [Paths -> FileStates] :
                       f["rec"] = "ok" /\ f["subs"] \in {"ok", "absent"}}
    /\ subsFile = InitText(fstate["subs"])
    /\ annFile = InitText(fstate["ann"])
    /\ recFile = <<"object", {}>>
    /\ TypeInit(Handlers)

DocNext ==
    \E t \in Handlers :
        \/ \E p \in DocPaths, default \in LoadDefaults : LoadCall(t, p, default)
        \/ \E data \in SaveInputs : SaveCall(t, "ann", data)
        \/ Loaded(t)
        \/ Saved(t)

DocSpec == DocInit /\ [][DocNext]_vars

\* the managers called with every kind of argument: ids that are empty or
\* not positive, dicts with and without the required fields, texts around
\* the two limits
CreateTexts(source, limit) ==
    {NoField, NoText, <<source, 1>>, <<source, limit>>, <<source, limit + 1>>}

CreateInputs ==
    {[sender_id |-> 1, message_id |-> 1, type |-> ty, content |-> c, caption |-> p] :
        ty \in {"absent", "photo"},
        c \in CreateTexts("content", CONTENT_LIMIT),
        p \in CreateTexts("caption", CAPTION_LIMIT)}
    \cup {[sender_id |-> sm[1], message_id |-> sm[2], type |-> "text",
           content |-> <<"content", 1>>, caption |-> NoField] :
              sm \in {<<0, 1>>, <<1, 0>>, <<0, 0>>}}

\* a record as create_announcement made it some days ago
StoredRecord(a, day) ==
    [id |-> a, timestamp |-> day, type |-> "text", sender_id |-> 1, message_id |-> 1,
     content |-> <<"old", 1>>, caption |-> NoText]

ManagerInit ==
    /\ fstate = AllOk
    /\ faults = MaxFaults
    /\ subsFile = <<>>
    /\ annFile \in {<<>>, <<[key |-> "a1", rec |-> StoredRecord("a1", NewDay)]>>}
    /\ recFile = EmptyMap
    /\ TypeInit(Handlers)

ManagerNext ==
    \E t \in Handlers :
        \/ \E u \in {0, 1} : AddCall(t, u)
        \/ \E a \in {"", "a1"}, u \in {0, 1} : MarkCall(t, a, u)
        \/ \E data \in CreateInputs : CreateAnnouncementCall(t, "a1", data)
        \/ CreateAnnouncementCall(t, "", CHOOSE data \in CreateInputs : RequiredFields(data))
        \/ \E a \in {"", "a1", "a2"} : GetCall(t, a)
        \/ AtomicReadModifyWrite(t)
        \/ CreateAnnouncementLoaded(t)
        \/ CreateSaved(t)
        \/ GetLoaded(t)

ManagerSpec == ManagerInit /\ [][ManagerNext]_vars

\* the reads of the announcements document, over documents of up to
\* MaxStored entries in every order, with records that name their key and
\* records that name another id, of two days
MaxStored == 3
StoredKeys == {"a1", "a2", "a3"}

StoredEntries ==
    {[key |-> k, rec |-> StoredRecord(IF own THEN k ELSE "zz", day)] :
        k \in StoredKeys, own \in BOOLEAN, day \in {OldDay, NewDay}}

StoredDocuments ==
    UNION {{d \in [1..n -> StoredEntries] :
               \A i, j \in 1..n : i # j => d[i].key # d[j].key} : n \in 0..MaxStored}

ReadInit ==
    /\ fstate = AllOk
    /\ faults = 0
    /\ subsFile = <<>>
    /\ annFile \in StoredDocuments
    /\ recFile = EmptyMap
    /\ TypeInit({1})

ReadNext ==
    \E t \in {1} :
        \/ \E a \in {""} \cup StoredKeys : GetCall(t, a)
        \/ \E a \in StoredKeys : ExistsCall(t, a)
        \/ CountCall(t)
        \/ ListAllCall(t)
        \/ GetLoaded(t)
        \/ ExistsLoaded(t)
        \/ CountLoaded(t)
        \/ ListAllLoaded(t)

ReadSpec == ReadInit /\ [][ReadNext]_vars

\* the admin's handlers, one update at a time: subscriber lists of one
\* subscriber, of a full batch, of one more, of 25, and of two full batches
\* and one more; sends that fail for the first subscriber, for the last of
\* the first batch, for the first of the second
SubscriberCounts ==
    {0, 1, BATCH_SIZE, BATCH_SIZE + 1, 25, 2 * BATCH_SIZE, 2 * BATCH_SIZE + 1}

DownSets == SUBSET {1, BATCH_SIZE, BATCH_SIZE + 1}

Senders == {ADMIN_ID, ADMIN_ID + 1}

BroadcastInit ==
    /\ fstate = AllOk
    /\ faults = 0
    /\ \E n \in SubscriberCounts : subsFile = [i \in 1..n |-> i]
    /\ annFile \in {EmptyMap, [a \in {"a1"} |-> [id |-> a, timestamp |-> OldDay]]}
    /\ recFile \in InitRecs(annFile)
    /\ TypeInit({1})

BroadcastNext ==
    \E t \in {1} :
        \/ \E u \in Senders, typed \in BOOLEAN, down \in DownSets :
               MessageCall(t, u, typed, down)
        \/ \E u \in Senders, args \in BOOLEAN, down \in DownSets :
               BroadcastCall(t, u, args, down)
        \/ \E u \in Senders : StatsCall(t, u)
        \/ \E u \in Senders : CleanupCommand(t, u)
        \/ \E u \in Senders, data \in {"cleanup_confirm", "cleanup_cancel"} :
               CleanupCallback(t, u, data)
        \/ SweepLoadedAnn(t)
        \/ SweepLoadedRec(t)
        \/ SweepSavedAnn(t)
        \/ SweepSavedRec(t)
        \/ ListLoaded(t)
        \/ Snapshot(t)
        \/ CreateLoaded(t)
        \/ CreateSaved(t)
        \/ Dispatch(t)
        \/ SendDone(t)
        \/ Collect(t)
        \/ Pause(t)
        \/ StatsLoadedAnn(t)
        \/ StatsLoadedRec(t)
        \/ StatsLoadedSubs(t)

BroadcastSpec == BroadcastInit /\ [][BroadcastNext]_vars

\* button presses of the admin and of a student, who is or is not a
\* subscriber, beside sweeps and deletes, by concurrent handlers
PressInit ==
    /\ fstate = AllOk
    /\ faults = 0
    /\ subsFile \in {<<>>, <<ADMIN_ID + 1>>}
    /\ annFile \in InitAnns
    /\ recFile \in InitRecs(annFile)
    /\ TypeInit(Handlers)

PressNext ==
    \E t \in Handlers :
        \/ \E u \in Senders, a \in AnnIds, read \in BOOLEAN : PressCall(t, u, a, read)
        \/ SweepCall(t)
        \/ \E a \in AnnIds : DeleteCall(t, a)
        \/ PressExists(t)
        \/ PressSubs(t)
        \/ AtomicReadModifyWrite(t)
        \/ PressAnswer(t)
        \/ PressCount(t)
        \/ PressTotal(t)
        \/ SweepLoadedAnn(t)
        \/ SweepLoadedRec(t)
        \/ SweepSavedAnn(t)
        \/ SweepSavedRec(t)
        \/ DeleteLoadedAnn(t)
        \/ DeleteLoadedRec(t)
        \/ DeleteSavedAnn(t)
        \/ DeleteSavedRec(t)

PressSpec == PressInit /\ [][PressNext]_vars

\* every kind of call that takes the lock, by concurrent handlers, with
\* arguments that fail validation, an unparsable file and writes that fail;
\* the event loop runs every task that is ready, and every file access
\* terminates.  What a call returns plays no part in whether it returns:
\* ret has no entry here, and [ret EXCEPT ![t] = r] leaves it as it is.
LiveInit ==
    /\ faults = MaxFaults
    /\ \E p \in UpdatePaths : fstate \in {AllOk, [AllOk EXCEPT ![p] = "malformed"]}
    /\ subsFile = <<>>
    /\ annFile = [a \in {"a1"} |-> [id |-> a, timestamp |-> OldDay]]
    /\ recFile \in InitRecs(annFile)
    /\ json_lock = [owner |-> NoTask, queue |-> <<>>]
    /\ op = [t \in Handlers |-> NoOp]
    /\ pc = [t \in Handlers |-> "idle"]
    /\ loc = [t \in Handlers |-> NoLocals]
    /\ ret = EmptyMap
    /\ store0 = [subs |-> subsFile, anns |-> annFile, recs |-> recFile]
    /\ before = [t \in Handlers |-> {}]

\* task t runs on from the file access or the acquire it is suspended in
Step(t) ==
    \/ AtomicReadModifyWrite(t)
    \/ ListLoaded(t)
    \/ CreateLoaded(t)
    \/ CreateSaved(t)
    \/ SweepLoadedAnn(t)
    \/ SweepLoadedRec(t)
    \/ SweepSavedAnn(t)
    \/ SweepSavedRec(t)

LiveNext ==
    \E t \in Handlers :
        \/ \E u \in {0, 1} : AddCall(t, u)
        \/ MarkCall(t, "a1", 1)
        \/ \E p \in UpdatePaths, cb \in {"same", "none"} : UpdateCall(t, p, cb)
        \/ ListCall(t)
        \/ CreateCall(t, "a2")
        \/ SweepCall(t)
        \/ Step(t)

\* every step of a task moves its pc, so fairness is stated on pc
LiveSpec ==
    /\ LiveInit
    /\ [][LiveNext]_vars
    /\ \A t \in Handlers : WF_pc(Step(t))

\* the events of the bot, one update at a time, from the admin and from a
\* student who is or is not a subscriber: commands with and without their
\* argument, for either user and for a non-positive id; messages; buttons;
\* one write can fail; the subscribers are none, one, two, or one more than
\* a batch
EventInit ==
    /\ fstate = AllOk
    /\ faults = MaxFaults
    /\ subsFile \in InitSubs \cup {[i \in 1..(BATCH_SIZE + 1) |-> i]}
    /\ annFile \in {anns \in InitAnns : "a2" \notin DOMAIN anns}
    /\ recFile \in InitRecs(annFile)
    /\ TypeInit({1})

EventNext ==
    \E t \in {1} :
        \/ \E u \in Senders : StartCommand(t, u)
        \/ \E u \in Senders, typed \in BOOLEAN, down \in SUBSET {ADMIN_ID + 1} :
               MessageCall(t, u, typed, down)
        \/ \E u \in Senders, args \in BOOLEAN, down \in SUBSET {ADMIN_ID + 1} :
               BroadcastCall(t, u, args, down)
        \/ \E u \in Senders : StatsCall(t, u)
        \/ \E u \in Senders : CleanupCommand(t, u)
        \/ \E u \in Senders, data \in {"cleanup_confirm", "cleanup_cancel"} :
               CleanupCallback(t, u, data)
        \/ \E u \in Senders, args \in BOOLEAN, a \in AnnIds : DeleteCommand(t, u, args, a)
        \/ \E u \in Senders, args \in BOOLEAN, id \in UserInputs : AddCommand(t, u, args, id)
        \/ \E u \in Senders, args \in BOOLEAN, id \in UserInputs : RemoveCommand(t, u, args, id)
        \/ \E u \in Senders, args \in BOOLEAN, a \in AnnIds : ReadCommand(t, u, args, a)
        \/ \E u \in Senders : ReadAllCommand(t, u)
        \/ \E u \in Senders : SubscribersCommand(t, u)
        \/ \E u \in Senders, a \in AnnIds, read \in BOOLEAN : PressCall(t, u, a, read)
        \/ AtomicReadModifyWrite(t)
        \/ CommandAnswer(t)
        \/ CommandTotal(t)
        \/ SweepLoadedAnn(t)
        \/ SweepLoadedRec(t)
        \/ SweepSavedAnn(t)
        \/ SweepSavedRec(t)
        \/ ListLoaded(t)
        \/ Snapshot(t)
        \/ CreateLoaded(t)
        \/ CreateSaved(t)
        \/ Dispatch(t)
        \/ SendDone(t)
        \/ Collect(t)
        \/ Pause(t)
        \/ StatsLoadedAnn(t)
        \/ StatsLoadedRec(t)
        \/ StatsLoadedSubs(t)
        \/ ReadLoaded(t)
        \/ DeleteLoadedAnn(t)
        \/ DeleteLoadedRec(t)
        \/ DeleteSavedAnn(t)
        \/ DeleteSavedRec(t)
        \/ PressExists(t)
        \/ PressSubs(t)
        \/ PressAnswer(t)
        \/ PressCount(t)
        \/ PressTotal(t)

EventSpec == EventInit /\ [][EventNext]_vars

\* ------------------------------------------------------------ reference runs
Started == {t \in DOMAIN pc : pc[t] # "idle"}
Returned == {t \in DOMAIN pc : pc[t] = "done"}

\* no call is in progress
Quiescent == Started = Returned

\* the tasks s and t ran their calls concurrently: neither had returned when
\* the other began
Concurrent(s, t) == s # t /\ s \notin before[t] /\ t \notin before[s]

\* the documents after the call o has run alone on the documents st
RunAlone(st, o) ==
    CASE o.kind = "add" ->
            IF ValidUserId(o.u)
            THEN [st EXCEPT !.subs = AddSubscriberModify(st.subs, o.u)] ELSE st
      [] o.kind = "remove" -> [st EXCEPT !.subs = RemoveSubscriberModify(st.subs, o.u)]
      [] o.kind = "mark" ->
            IF o.a # "" /\ ValidUserId(o.u)
            THEN [st EXCEPT !.recs = ModifyReceipts(st.recs, o.a, o.u)] ELSE st
      [] o.kind = "create" ->
            IF o.a # ""
            THEN [st EXCEPT !.anns = MapPut(st.anns, o.a, AnnouncementData(o.a))] ELSE st
      [] o.kind = "sweep" ->
            IF AnnouncementsToDelete(st.anns) # {}
            THEN [st EXCEPT !.anns = SweepAnnouncements(st.anns),
                            !.recs = SweepReceipts(st.anns, st.recs)]
            ELSE st
      [] o.kind = "delete" ->
            IF o.a \in DOMAIN st.anns
            THEN [st EXCEPT !.anns = MapDel(st.anns, o.a), !.recs = MapDel(st.recs, o.a)]
            ELSE st
      [] OTHER -> st

\* the documents after the calls of the tasks order[1], order[2], ... have run
\* one at a time, in that order, on the documents st
RECURSIVE RunInOrder(_, _)
RunInOrder(st, order) ==
    IF order = <<>> THEN st
    ELSE RunInOrder(RunAlone(st, op[Head(order)]), Tail(order))

\* the total orders of the set of tasks S
Orders(S) ==
    {f \in [1..Cardinality(S) -> S] : \A i, j \in 1..Cardinality(S) : f[i] = f[j] => i = j}

\* an order that keeps a call that returned before another began in front of it
RealTime(f) == \A i, j \in DOMAIN f : i < j => f[j] \notin before[f[i]]

StoredNow == [subs |-> subsFile, anns |-> annFile, recs |-> recFile]

\* the stored documents are those of running the calls of S in some order
Serializable(S) == \E f \in Orders(S) : RunInOrder(store0, f) = StoredNow

Linearizable(S) == \E f \in Orders(S) : RealTime(f) /\ RunInOrder(store0, f) = StoredNow

\* ------------------------------------------------------------ claims
IsAdd(t, u) == op[t].kind = "add" /\ op[t].u = u
IsRemove(t, u) == op[t].kind = "remove" /\ op[t].u = u
IsMark(t, a, u) == op[t].kind = "mark" /\ op[t].a = a /\ op[t].u = u

\* C1: once every call has returned, an id that concurrent add calls were
\* given, and no remove call, is stored exactly once.
C1_ConcurrentAddStoresOnce ==
    \A u \in Users :
        ( /\ Quiescent
          /\ \E t \in Returned : IsAdd(t, u)
          /\ \A t \in Started : ~IsRemove(t, u) )
        => Occurrences(subsFile, u) = 1

\* two add(u) calls ran concurrently for an id that was not stored before
C1_Witness ==
    \E u \in Users : \E s, t \in Returned :
        /\ Quiescent
        /\ IsAdd(s, u) /\ IsAdd(t, u) /\ Concurrent(s, t)
        /\ u \notin Range(store0.subs)
        /\ Occurrences(subsFile, u) = 1

\* what the calls for the id v leave behind
EffectPresent(v) ==
    LET adds == {t \in Started : IsAdd(t, v)}
        removes == {t \in Started : IsRemove(t, v)}
    IN  CASE adds # {} /\ removes = {} -> Occurrences(subsFile, v) = 1
          [] adds = {} /\ removes # {} -> Occurrences(subsFile, v) = 0
          [] adds = {} /\ removes = {} ->
                Occurrences(subsFile, v) = Occurrences(store0.subs, v)
          [] OTHER -> Occurrences(subsFile, v) <= 1

\* C2: when add(u) was called after remove(u) had returned, u is stored exactly
\* once after all calls have returned, whatever calls for other ids ran in
\* between, and the effects of those calls are all stored as well.
C2_RemoveThenAddStoresOnce ==
    \A u \in Users : \A r, a \in Returned :
        ( /\ Quiescent
          /\ IsRemove(r, u) /\ IsAdd(a, u) /\ r \in before[a]
          /\ \A t \in Started \ {r, a} : ~IsAdd(t, u) /\ ~IsRemove(t, u) )
        => /\ Occurrences(subsFile, u) = 1
           /\ \A v \in Users \ {u} : EffectPresent(v)

\* a stored id was removed and added again while a call added another id
C2_Witness ==
    \E u \in Users : \E r, a, x \in Returned :
        /\ Quiescent
        /\ IsRemove(r, u) /\ IsAdd(a, u) /\ r \in before[a]
        /\ u \in Range(store0.subs)
        /\ op[x].kind = "add" /\ op[x].u \in Users \ {u}
        /\ op[x].u \notin Range(store0.subs)
        /\ Concurrent(x, r)
        /\ Occurrences(subsFile, u) = 1
        /\ Occurrences(subsFile, op[x].u) = 1

\* C7: once every call has returned, the subscribers and receipts documents
\* are those of running the add, remove and mark_read calls one at a time in
\* some order that keeps every call that returned before another began in
\* front of it.
C7_MutatorCallsLinearizable ==
    ( /\ Quiescent
      /\ \A t \in Started : op[t].kind \in {"add", "remove", "mark"} )
    => Linearizable(Started)

\* an add, a remove and a mark_read ran, two of them concurrently, and both
\* documents changed
C7_Witness ==
    \E s, t, m \in Returned :
        /\ Quiescent
        /\ op[s].kind = "add" /\ op[t].kind = "remove" /\ op[m].kind = "mark"
        /\ Concurrent(s, t)
        /\ subsFile # store0.subs
        /\ recFile # store0.recs
        /\ Linearizable(Started)

\* the step in which the atomic cycle of task t runs and its call returns
CycleOf(t) == pc[t] = "rmw" /\ pc'[t] = "done"

\* u is recorded for a in the receipts document recs
Recorded(recs, a, u) == a \in DOMAIN recs /\ u \in Range(recs[a])

\* C3: when only create calls ran, every record a create call reported stored
\* is in the announcements document once all calls have returned.
C3_NoLostCreate ==
    ( /\ Quiescent
      /\ \A t \in Started : op[t].kind = "create" )
    => \A t \in Returned :
          ret[t] = TRUE =>
              /\ op[t].a \in DOMAIN annFile
              /\ annFile[op[t].a] = AnnouncementData(op[t].a)

\* C4: no step takes a subscriber out of the receipt list of an announcement
\* that is stored before and after the step (and that no call creates anew).
C4_ReceiptsOnlyGrow ==
    [][ \A a \in (DOMAIN annFile) \cap (DOMAIN annFile') :
            ( /\ a \in DOMAIN recFile
              /\ \A t \in DOMAIN pc : ~(op[t].kind = "create" /\ op[t].a = a) )
            => /\ a \in DOMAIN recFile'
               /\ Range(recFile[a]) \subseteq Range(recFile'[a]) ]_vars

\* C5: a mark_read call that runs its cycle returns success and a duplicate
\* flag that is true exactly when the user was recorded for the announcement
\* before the cycle.
C5_DuplicateFlag ==
    [][ \A t \in DOMAIN pc :
            (CycleOf(t) /\ op[t].kind = "mark")
            => ret'[t] = <<TRUE, Recorded(recFile, op[t].a, op[t].u)>> ]_vars

NoDuplicateReceipts ==
    \A a \in DOMAIN recFile : \A u \in Range(recFile[a]) : Occurrences(recFile[a], u) = 1

\* after identical mark_read calls alone, on an announcement without receipts,
\* the read count is 1
CountAfterIdenticalCalls ==
    \A s, t \in Returned :
        ( /\ Quiescent
          /\ s # t
          /\ op[s].kind = "mark"
          /\ \A x \in Started : op[x] = op[s]
          /\ op[s].a \notin DOMAIN store0.recs )
        => GetReadCount(recFile, op[s].a) = 1

RepeatedMarkChangesNothing ==
    \A t \in DOMAIN pc :
        (CycleOf(t) /\ op[t].kind = "mark" /\ Recorded(recFile, op[t].a, op[t].u))
        => recFile' = recFile

\* C6: no receipt list ever holds a subscriber twice; a mark_read for a user
\* already recorded leaves the receipts document as it is; after two identical
\* mark_read calls the read count of the announcement is 1.
C6_ReceiptsDeduplicated ==
    /\ [](NoDuplicateReceipts /\ CountAfterIdenticalCalls)
    /\ [][RepeatedMarkChangesNothing]_vars

\* two identical mark_read calls ran concurrently on an announcement that had
\* no receipts
C6_Witness ==
    \E s, t \in Returned :
        /\ Quiescent
        /\ op[s].kind = "mark" /\ op[t] = op[s] /\ Concurrent(s, t)
        /\ op[s].a \notin DOMAIN store0.recs
        /\ GetReadCount(recFile, op[s].a) = 1

\* task t is inside a file-access section: past the acquire of a load_json,
\* save_json or atomic_read_modify_write and not yet out of it
InSection(t) == pc[t] \notin {"idle", "done"} /\ ~Blocked(t)

Reading(t) ==
    /\ InSection(t)
    /\ pc[t] \in {"rmw", "list_load", "create_load", "sweep_load_ann", "sweep_load_rec",
                  "delete_load_ann", "delete_load_rec"}

Writing(t) ==
    /\ InSection(t)
    /\ pc[t] \in {"rmw", "create_save", "sweep_save_ann", "sweep_save_rec",
                  "delete_save_ann", "delete_save_rec"}

\* C8: at most one task is inside a file-access section, that task owns the
\* lock, and no task reads a document while another writes one.
C8_MutualExclusion ==
    /\ Cardinality({t \in DOMAIN pc : InSection(t)}) <= 1
    /\ \A t \in DOMAIN pc : InSection(t) => json_lock.owner = t
    /\ \A s, t \in DOMAIN pc : s # t => ~(Reading(s) /\ Writing(t))

\* a save_json is writing while an atomic cycle waits for the lock
C8_Witness ==
    \E s, t \in DOMAIN pc :
        /\ Writing(s) /\ pc[s] = "create_save"
        /\ pc[t] = "rmw" /\ Blocked(t)

\* C9: every step that changes a document is the atomic cycle of some task.
C9_WritesThroughMutator ==
    [][ (subsFile' # subsFile \/ annFile' # annFile \/ recFile' # recFile)
        => \E t \in DOMAIN pc : CycleOf(t) ]_vars

\* C10: once all calls have returned, the documents left by sweep and delete
\* calls are those of running the calls one at a time in some order.
C10_CascadeDeletesSerialize ==
    ( /\ Quiescent
      /\ \A t \in Started : op[t].kind \in {"sweep", "delete"} )
    => Serializable(Started)

\* ------------------------------------------------------------ sweep claims
IsSweep(t) == op[t].kind = "sweep"

\* the sweep of task t has returned and no other call was made
SweptAlone(t) == Started = {t} /\ IsSweep(t) /\ pc[t] = "done"

\* no write has failed
NoFault == faults = MaxFaults

\* the announcements the stored document holds
StoredAnnIds == IF fstate["ann"] = "ok" THEN DOMAIN annFile ELSE {}

\* the age in days of a timestamp that parses
Age(ts) == Now - ts

Parsable(rec) == rec.timestamp # NoTimestamp

\* C11: after a sweep that ran alone and whose saves succeeded, a stored
\* announcement with a parsable timestamp is gone if and only if it is older
\* than the retention period; those that are kept are kept as they were and
\* nothing is added.
C11_SweepDeletesExpired ==
    \A t \in Handlers :
        (SweptAlone(t) /\ NoFault) =>
            /\ StoredAnnIds \subseteq DOMAIN store0.anns
            /\ \A a \in DOMAIN store0.anns :
                  Parsable(store0.anns[a]) =>
                      /\ a \notin StoredAnnIds
                            <=> Age(store0.anns[a].timestamp) > ANNOUNCEMENT_RETENTION_DAYS
                      /\ a \in StoredAnnIds => annFile[a] = store0.anns[a]

\* a sweep alone dropped an 11-day-old announcement and kept one made exactly
\* at the cutoff
C11_Witness ==
    \E t \in Handlers :
        /\ SweptAlone(t) /\ NoFault
        /\ DOMAIN store0.anns = {"a1", "a2"}
        /\ Age(store0.anns["a1"].timestamp) = ANNOUNCEMENT_RETENTION_DAYS + 1
        /\ Age(store0.anns["a2"].timestamp) = ANNOUNCEMENT_RETENTION_DAYS
        /\ StoredAnnIds = {"a2"}

C13_SweepCascades ==
    \A t \in Handlers :
        (SweptAlone(t) /\ NoFault) =>
            /\ \A a \in (DOMAIN store0.anns) \ StoredAnnIds :
                  fstate["rec"] = "ok" /\ a \notin DOMAIN recFile
            /\ \A a \in DOMAIN store0.anns :
                  Age(store0.anns[a].timestamp) > ANNOUNCEMENT_RETENTION_DAYS
                      => a \notin StoredAnnIds

\* a sweep alone dropped an expired announcement that had a receipt entry
\* and one that had none; the entry is gone
C13_Witness ==
    \E t \in Handlers :
        /\ SweptAlone(t) /\ NoFault
        /\ DOMAIN store0.anns = {"a1", "a2"}
        /\ DOMAIN store0.recs = {"a1"}
        /\ StoredAnnIds = {}
        /\ recFile = EmptyMap

\* the task is in one of the two save_json calls of the sweep
SweepSaving(t) == pc[t] \in {"sweep_save_ann", "sweep_save_rec"}

\* every stored announcement has a parsable timestamp within the retention period
NothingToSweep(anns) ==
    \A a \in DOMAIN anns :
        Parsable(anns[a]) /\ Age(anns[a].timestamp) <= ANNOUNCEMENT_RETENTION_DAYS

\* C14: a sweep reaches its saves only with at least one deletion counted;
\* run alone on a store with nothing to delete it never reaches them, it
\* returns 0 and the documents are as they were.
C14_SweepWritesOnlyDeletions ==
    \A t \in Handlers :
        /\ (IsSweep(t) /\ SweepSaving(t)) => loc[t].n > 0
        /\ (Started = {t} /\ IsSweep(t) /\ NothingToSweep(store0.anns)) =>
              /\ ~SweepSaving(t)
              /\ NoFault
              /\ StoredNow = store0 /\ fstate["ann"] = "ok"
              /\ pc[t] = "done" => ret[t] = 0

\* a sweep alone on a store of recent announcements returned 0
C14_Witness ==
    \E t \in Handlers :
        /\ SweptAlone(t)
        /\ store0.anns # EmptyMap
        /\ NothingToSweep(store0.anns)
        /\ ret[t] = 0

\* C15: the sweep that ran alone returns the number of announcements that
\* are gone from the stored document, whatever its saves did.
C15_ReturnCountsRemoved ==
    \A t \in Handlers :
        SweptAlone(t) =>
            ret[t] = Cardinality((DOMAIN store0.anns) \ StoredAnnIds)

\* ------------------------------------------------------------ mutator claims
IsUpdate(t, cb) == op[t].kind = "update" /\ op[t].cb = cb

\* (False, None) as the caller of the cycle of task t sees it
CycleRefused(t) ==
    CASE op[t].kind = "update" -> ret[t] = <<FALSE, <<>>>>
      [] op[t].kind = "mark" -> ret[t] = <<FALSE, FALSE>>
      [] OTHER -> ret[t] = FALSE

\* C16: a cycle whose callback returns None leaves the three files as they
\* are and returns (False, None).
C16_InvalidResultAborts ==
    [][\A t \in Handlers :
          (CycleOf(t) /\ IsUpdate(t, "none")) =>
              /\ UNCHANGED <<subsFile, annFile, recFile, fstate, faults>>
              /\ ret'[t] = <<FALSE, <<>>>>]_vars

\* a cycle whose callback returns None has returned
C16_Witness ==
    \E t \in Handlers :
        /\ pc[t] = "done" /\ IsUpdate(t, "none")
        /\ fstate[op[t].path] = "ok"
        /\ ret[t] = <<FALSE, <<>>>>

\* the cycle of t was refused and a call that began later, on another file,
\* went through
LaterCallSucceeded(t, s) ==
    /\ t \in before[s] /\ pc[s] = "done"
    /\ fstate[OpPath(op[t])] = "malformed"
    /\ OpPath(op[s]) # OpPath(op[t])
    /\ \/ op[s].kind = "add" /\ ret[s] = TRUE /\ op[s].u \in Range(subsFile)
       \/ op[s].kind = "mark" /\ ret[s][1] = TRUE /\ op[s].u \in Range(recFile[op[s].a])

\* C17: a cycle on an unparsable file leaves the three files as they are,
\* returns (False, None) to its caller and leaves the lock; a manager call
\* that begins after it on another file succeeds unless its own write fails.
C17_ParseFailureIsLocal ==
    /\ [][\A t \in Handlers :
             (CycleOf(t) /\ fstate[OpPath(op[t])] = "malformed") =>
                 /\ UNCHANGED <<subsFile, annFile, recFile, fstate, faults>>
                 /\ ret'[t] = CycleFailed(op[t])
                 /\ json_lock'.owner # t /\ t \notin Range(json_lock'.queue)]_vars
    /\ [](\A t, s \in Handlers :
             ( /\ t \in before[s] /\ pc[s] = "done"
               /\ op[t].kind \in {"add", "mark", "update"}
               /\ fstate[OpPath(op[t])] = "malformed"
               /\ op[s].kind \in {"add", "mark"}
               /\ OpPath(op[s]) # OpPath(op[t])
               /\ fstate[OpPath(op[s])] = "ok"
               /\ NoFault )
             => /\ CycleRefused(t)
                /\ LaterCallSucceeded(t, s))

\* a cycle on the unparsable subscribers file was refused and a later
\* mark_as_read was recorded
C17_Witness ==
    \E t, s \in Handlers :
        /\ pc[t] = "done" /\ pc[s] = "done"
        /\ NoFault
        /\ op[t].kind = "add" /\ ret[t] = FALSE
        /\ op[s].kind = "mark"
        /\ LaterCallSucceeded(t, s)

\* ------------------------------------------------------------ document store claims
IsLoad(t) == op[t].kind = "load"
IsSave(t) == op[t].kind = "save"

\* the step in which load_json or save_json runs its locked body and returns
Returns(t, label) == pc[t] = label /\ pc'[t] = "done"

\* C18: load_json on a file that is absent, unparsable or holds a scalar
\* returns the default it was given (the empty document of the path when it
\* was given None); on a well-formed file it returns the parsed document; in
\* every case it returns, leaves the lock and changes no file.
C18_LoadDefaults ==
    [][\A t \in Handlers :
          (Returns(t, "load") /\ IsLoad(t)) =>
              LET path == op[t].path
                  default == op[t].default
              IN  /\ fstate[path] \in {"absent", "malformed", "scalar"} =>
                        /\ default # PyNone => ret'[t] = default
                        /\ default = PyNone =>
                              ret'[t] = IF path = "subs" THEN <<"list", <<>>>>
                                        ELSE <<"dict", {}>>
                  /\ fstate[path] = "ok" => ret'[t] = JsonLoad(Content(path))
                  /\ json_lock'.owner # t
                  /\ UNCHANGED <<subsFile, annFile, recFile, fstate, faults>>]_vars

\* a load on an unparsable file returned the list it was given as default
C18_Witness ==
    \E t \in Handlers :
        /\ Started = {t} /\ pc[t] = "done" /\ IsLoad(t)
        /\ fstate[op[t].path] = "malformed"
        /\ op[t].default = <<"list", <<<<"int", 1>>>>>>
        /\ ret[t] = op[t].default

\* C19: save_json given a value that is neither a dict nor a list returns
\* False and leaves every file as it is.
C19_SaveRejectsScalars ==
    [][\A t \in Handlers :
          (Returns(t, "save") /\ IsSave(t) /\ op[t].data \in PyScalars) =>
              /\ ret'[t] = FALSE
              /\ UNCHANGED <<subsFile, annFile, recFile, fstate, faults>>]_vars

\* a save of a string has returned False on a well-formed file
C19_Witness ==
    \E t \in Handlers :
        /\ Started = {t} /\ pc[t] = "done" /\ IsSave(t)
        /\ op[t].data = <<"str", "x">>
        /\ fstate[op[t].path] = "ok"
        /\ ret[t] = FALSE

\* a value JSON can represent: the keys of its dicts are strings
RECURSIVE JsonRepresentable(_)
JsonRepresentable(v) ==
    CASE v[1] = "list" -> \A i \in DOMAIN v[2] : JsonRepresentable(v[2][i])
      [] v[1] = "dict" -> \A kv \in v[2] : kv[1][1] = "str" /\ JsonRepresentable(kv[2])
      [] OTHER -> TRUE

\* the save of s returned True, the load of l on the same path began after
\* it, and no other call was made
SavedThenLoaded(s, l) ==
    /\ Started = {s, l} /\ Quiescent
    /\ IsSave(s) /\ ret[s] = TRUE
    /\ IsLoad(l) /\ op[l].path = op[s].path
    /\ s \in before[l]

C21_AddRemoveIdempotent ==
    [][\A t \in Tasks : \A u \in Users :
          /\ (CycleOf(t) /\ IsAdd(t, u)) =>
                /\ ret'[t] = TRUE
                /\ u \in Range(subsFile) => subsFile' = subsFile
                /\ Occurrences(subsFile', u) = 1
          /\ (CycleOf(t) /\ IsRemove(t, u)) =>
                /\ ret'[t] = TRUE
                /\ u \notin Range(subsFile) => subsFile' = subsFile
                /\ Occurrences(subsFile', u) = 0]_vars

\* an id that was not stored was added by two calls, one after the other, and
\* is stored once
C21_Witness ==
    \E s, t \in Tasks :
        /\ s \in before[t] /\ pc[t] = "done"
        /\ IsAdd(s, 1) /\ IsAdd(t, 1)
        /\ ret[s] = TRUE /\ ret[t] = TRUE
        /\ 1 \notin Range(store0.subs)
        /\ Occurrences(subsFile, 1) = 1

\* add_subscriber with an id that is no positive integer; mark_as_read with
\* an empty announcement id or such a user id
BadArguments(o) ==
    \/ o.kind = "add" /\ ~(o.u > 0)
    \/ o.kind = "mark" /\ (o.a = "" \/ ~(o.u > 0))

FailureValue(o) == IF o.kind = "mark" THEN <<FALSE, FALSE>> ELSE FALSE

\* C22: the step that calls add_subscriber or mark_as_read with bad arguments
\* is the whole call: it returns the failure value, leaves the lock as it was
\* (held or free, with the same waiters) and leaves every file as it was.
C22_BadArgumentsTouchNothing ==
    [][\A t \in DOMAIN pc :
          (pc[t] = "idle" /\ pc'[t] # "idle" /\ BadArguments(op'[t])) =>
              /\ pc'[t] = "done"
              /\ ret'[t] = FailureValue(op'[t])
              /\ json_lock' = json_lock
              /\ Files' = Files]_vars

\* both kinds of call were refused, one after the other
C22_Witness ==
    \E s, t \in DOMAIN pc :
        /\ op[s].kind = "add" /\ op[s].u = 0 /\ pc[s] = "done" /\ ret[s] = FALSE
        /\ op[t].kind = "mark" /\ op[t].a = "" /\ op[t].u = 1
        /\ pc[t] = "done" /\ ret[t] = <<FALSE, FALSE>>
        /\ t \in before[s]

\* create_announcement with an empty id or with a dict that lacks sender_id
\* or message_id
IsCreateAnnouncement(t) == op[t].kind = "create" /\ "data" \in DOMAIN op[t]

BadAnnouncement(t) ==
    /\ IsCreateAnnouncement(t)
    /\ (op[t].a = "" \/ op[t].data.sender_id = 0 \/ op[t].data.message_id = 0)

\* C23: a create_announcement with an empty id or without sender_id or
\* message_id never waits for the lock, never holds it, and has returned
\* False.
C23_RejectedBeforeIo ==
    \A t \in DOMAIN pc :
        BadAnnouncement(t) =>
            /\ pc[t] = "done"
            /\ ret[t] = FALSE
            /\ json_lock.owner # t

Min(a, b) == IF a < b THEN a ELSE b

\* the first limit code points of a field, '' when the field is missing
Prefix(text, limit) ==
    IF text = NoField THEN NoText ELSE <<text[1], Min(text[2], limit)>>

\* C24: after a create_announcement that ran alone and returned True, the
\* file holds under the id a record whose id is the id, whose type is the
\* given one or text, whose caption is the first 200 code points of the given
\* caption, whose content is the first 500 code points of the given content,
\* or the stored caption when that content is empty; a get_announcement of
\* the id that follows returns this record.
C24_CreatedRecord ==
    \A s \in DOMAIN pc :
        (/\ IsCreateAnnouncement(s) /\ pc[s] = "done" /\ ret[s] = TRUE
         /\ \A t \in Started \ {s} :
               /\ s \in before[t]
               /\ op[t].kind = "get" /\ op[t].a = op[s].a /\ pc[t] = "done") =>
            LET a == op[s].a
                data == op[s].data
                found == DictGet(annFile, a)
            IN  /\ found # <<>>
                /\ found[1].id = a
                /\ found[1].type = (IF data.type = "absent" THEN "text" ELSE data.type)
                /\ found[1].caption = Prefix(data.caption, 200)
                /\ found[1].content = (IF Prefix(data.content, 500) = NoText
                                       THEN found[1].caption
                                       ELSE Prefix(data.content, 500))
                /\ found[1].content[2] <= 500 /\ found[1].caption[2] <= 200
                /\ \A t \in Started \ {s} : ret[t] = found

\* a record with a content of 501 and no type was created, cut to 500, and
\* read back
C24_Witness ==
    \E s, t \in DOMAIN pc :
        /\ IsCreateAnnouncement(s) /\ pc[s] = "done" /\ ret[s] = TRUE
        /\ op[s].data.content[2] = 501 /\ op[s].data.type = "absent"
        /\ op[t].kind = "get" /\ op[t].a = op[s].a /\ pc[t] = "done"
        /\ s \in before[t]
        /\ ret[t] # <<>> /\ ret[t][1].content[2] = 500

\* a stored record whose id field is not the key it is stored under
Mismatched(a) ==
    \E i \in DOMAIN annFile : annFile[i].key = a /\ annFile[i].rec.id # a

WellStored == {i \in DOMAIN annFile : annFile[i].rec.id = annFile[i].key}

\* C25: what a read returns leaves the mismatched records out: get returns
\* None for the key of one, exists returns False for it, count counts the
\* other records only, and list_all returns none of them.
C25_MismatchedExcluded ==
    \A t \in DOMAIN pc :
        pc[t] = "done" =>
            /\ (op[t].kind = "get" /\ Mismatched(op[t].a)) => ret[t] = <<>>
            /\ (op[t].kind = "exists" /\ Mismatched(op[t].a)) => ret[t] = FALSE
            /\ op[t].kind = "count" => ret[t] = Cardinality(WellStored)
            /\ op[t].kind = "list_all" =>
                  \A i \in DOMAIN ret[t] : ret[t][i].rec.id = ret[t][i].key

\* the place of key k in the stored document
Place(k) == CHOOSE i \in DOMAIN annFile : annFile[i].key = k

\* C26: list_all returns the entries whose record names its key, each once
\* and no other, the newer before the older, and those of one timestamp in
\* the order of the stored document.
C26_ListAllOrder ==
    \A t \in DOMAIN pc :
        (pc[t] = "done" /\ op[t].kind = "list_all") =>
            LET r == ret[t]
            IN  /\ {r[i] : i \in DOMAIN r} = {annFile[i] : i \in WellStored}
                /\ Len(r) = Cardinality(WellStored)
                /\ \A i, j \in DOMAIN r :
                      i < j =>
                          \/ r[i].rec.timestamp > r[j].rec.timestamp
                          \/ /\ r[i].rec.timestamp = r[j].rec.timestamp
                             /\ Place(r[i].key) < Place(r[j].key)

\* a document with an older entry first, two newer entries of one day after
\* it and no mismatched record among them was listed: the older entry came
\* last and the two others kept their order
C26_Witness ==
    \E t \in DOMAIN pc :
        /\ pc[t] = "done" /\ op[t].kind = "list_all"
        /\ Len(annFile) = 3 /\ Len(ret[t]) = 3
        /\ annFile[1].rec.timestamp = OldDay
        /\ annFile[2].rec.timestamp = NewDay /\ annFile[3].rec.timestamp = NewDay
        /\ ret[t] = <<annFile[2], annFile[3], annFile[1]>>

\* ------------------------------------------------------------ handler claims
IsBroadcast(t) == op[t].kind \in {"message", "broadcast"}

\* the handler of task t has sent its report
Reported(t) == IsBroadcast(t) /\ pc[t] = "done" /\ loc[t].bc.subscribers # <<>>

\* C27: a broadcast to the n stored subscribers has, when it reports, started
\* ceil(n / 20) batches and paused once less, and its successes and failures
\* add up to n; a batch is started only when no send of the batch before is
\* unfinished and a pause has followed every batch before it; a pause is made
\* only after a finished batch that is not the last.
C27_Batches ==
    /\ [](\A t \in DOMAIN pc :
            Reported(t) =>
                LET n == Len(subsFile)
                    bc == loc[t].bc
                IN  /\ bc.batches = (n + 19) \div 20
                    /\ bc.pauses = bc.batches - 1
                    /\ ret[t].successful_sends + Len(ret[t].failed_sends) = n)
    /\ [][\A t \in DOMAIN pc :
            LET bc == loc[t].bc
                n == Len(subsFile)
            IN  /\ bc.batches # loc'[t].bc.batches =>
                      /\ loc'[t].bc.batches = bc.batches + 1
                      /\ bc.pending = {}
                      /\ DOMAIN bc.results = {p \in 1..n : p <= 20 * bc.batches
                                                           /\ p > 20 * (bc.batches - 1)}
                      /\ bc.pauses = bc.batches
               /\ bc.pauses # loc'[t].bc.pauses =>
                      /\ loc'[t].bc.pauses = bc.pauses + 1
                      /\ bc.pending = {}
                      /\ bc.batches = bc.pauses + 1
                      /\ 20 * bc.batches < n]_vars

\* 25 subscribers got the admin's message in two batches with one pause
C27_Witness ==
    \E t \in DOMAIN pc :
        /\ Reported(t) /\ op[t].kind = "message"
        /\ Len(subsFile) = 25
        /\ loc[t].bc.batches = 2 /\ loc[t].bc.pauses = 1
        /\ ret[t].successful_sends = 24 /\ Len(ret[t].failed_sends) = 1

\* the subscribers of the snapshot a send to whom fails
Unreachable(t) ==
    IF op[t].kind = "message" /\ ~op[t].typed
    THEN Range(loc[t].bc.subscribers)
    ELSE op[t].down \cap Range(loc[t].bc.subscribers)

\* C28: no place of the snapshot is ever sent to twice; when the handler
\* reports, every place was sent to once, whatever sends failed, the list of
\* failures holds the subscribers whose send failed, each once, and every
\* other send was counted a success.
C28_OneAttemptEach ==
    \A t \in DOMAIN pc :
        IsBroadcast(t) =>
            LET bc == loc[t].bc
            IN  /\ \A p \in DOMAIN bc.attempts : bc.attempts[p] <= 1
                /\ Reported(t) =>
                      /\ bc.subscribers = subsFile
                      /\ \A p \in DOMAIN subsFile : bc.attempts[p] = 1
                      /\ Range(ret[t].failed_sends) = Unreachable(t)
                      /\ Len(ret[t].failed_sends) = Cardinality(Unreachable(t))
                      /\ ret[t].successful_sends =
                             Len(subsFile) - Cardinality(Unreachable(t))

\* a /broadcast to 25 subscribers failed for the first and for the last of
\* the first batch; the five of the second batch were sent to
C28_Witness ==
    \E t \in DOMAIN pc :
        /\ Reported(t) /\ op[t].kind = "broadcast"
        /\ Len(subsFile) = 25
        /\ ret[t].failed_sends = <<1, 20>>
        /\ ret[t].successful_sends = 23
        /\ \A p \in 21..25 : loc[t].bc.attempts[p] = 1

\* task t is at a file access of cleanup_old_announcements
Sweeping(t) ==
    pc[t] \in {"sweep_load_ann", "sweep_load_rec", "sweep_save_ann", "sweep_save_rec"}

\* C29: a broadcasting handler whose sweep has not returned has not entered
\* create_announcement or a send, and its announcement is not stored; a
\* stats_command whose sweep has not returned reads no statistics;
\* cleanup_command sweeps nothing, and handle_cleanup_callback sweeps only
\* for the admin's cleanup_confirm.
C29_SweepFirst ==
    \A t \in DOMAIN pc :
        /\ (IsBroadcast(t) /\ ~loc[t].swept) =>
              /\ pc[t] \notin {"create_load", "create_save", "dispatch", "gather", "sleep"}
              /\ op[t].a \notin DOMAIN annFile
              /\ loc[t].bc.batches = 0
        /\ (op[t].kind = "stats" /\ ~loc[t].swept) =>
              pc[t] \notin {"stats_load_ann", "stats_load_rec", "stats_load_subs"}
        /\ op[t].kind = "cleanup_command" => ~Sweeping(t) /\ ~loc[t].swept
        /\ (op[t].kind = "cleanup" /\ (Sweeping(t) \/ loc[t].swept)) =>
              op[t].u = ADMIN_ID /\ op[t].data = "cleanup_confirm"

\* the admin's message was recorded after the sweep had removed the expired
\* announcement
C29_Witness ==
    \E t \in DOMAIN pc :
        /\ Reported(t) /\ op[t].kind = "message" /\ loc[t].swept
        /\ "a1" \in DOMAIN store0.anns /\ "a1" \notin DOMAIN annFile
        /\ op[t].a \in DOMAIN annFile

\* ------------------------------------------------------------ failure claims
\* what a call returns to report that it failed
FailureValue30(o) == IF o.kind = "sweep" THEN 0 ELSE CycleFailed(o)

\* C30: a sweep or a read-modify-write cycle that ran alone and one of whose
\* writes failed has returned, and has returned its failure value: 0 for the
\* sweep, (False, None) for the cycle, as its caller passes it on.
C30_FailureReturned ==
    \A t \in DOMAIN pc :
        (Started = {t} /\ pc[t] = "done" /\ ~NoFault) =>
            ret[t] = FailureValue30(op[t])

\* ------------------------------------------------------------ delete claims
IsDelete(t) == op[t].kind = "delete"

\* the document now is the document before without the key a
Without(now, was, a) ==
    /\ DOMAIN now = (DOMAIN was) \ {a}
    /\ \A b \in DOMAIN now : now[b] = was[b]

\* C32: a delete_command that runs alone and names an announcement that is
\* not stored never comes to a save and leaves the three documents as they
\* were; one that names a stored announcement has, when it returns, taken
\* that announcement and its receipt entry out and left every other entry
\* and the subscribers as they were.
C32_DeleteFrame ==
    \A t \in DOMAIN pc :
        (Started = {t} /\ IsDelete(t)) =>
            /\ op[t].a \notin DOMAIN store0.anns =>
                  /\ pc[t] \notin {"delete_save_ann", "delete_save_rec"}
                  /\ StoredNow = store0
            /\ (op[t].a \in DOMAIN store0.anns /\ pc[t] = "done") =>
                  /\ ret[t] = TRUE
                  /\ Without(annFile, store0.anns, op[t].a)
                  /\ Without(recFile, store0.recs, op[t].a)
                  /\ subsFile = store0.subs

\* one of two stored announcements, both with receipts, was deleted
C32_Witness ==
    \E t \in DOMAIN pc :
        /\ Started = {t} /\ IsDelete(t) /\ pc[t] = "done"
        /\ DOMAIN store0.anns = {"a1", "a2"} /\ DOMAIN store0.recs = {"a1", "a2"}
        /\ op[t].a = "a1"
        /\ DOMAIN annFile = {"a2"} /\ DOMAIN recFile = {"a2"}

\* ------------------------------------------------------------ receipt handler claims
IsPress(t) == op[t].kind = "press"

\* C31: a button press that ran alone answers with the first-time
\* acknowledgement only if the user was not recorded for the announcement
\* before and is recorded now, and answers with the notice of a repeated
\* click if it came to mark_as_read and the user was recorded before.
C31_AnswerTellsFirstFromRepeat ==
    \A t \in DOMAIN pc :
        (Started = {t} /\ IsPress(t) /\ pc[t] = "done") =>
            /\ ret[t][1] = "first" =>
                  /\ ~Recorded(store0.recs, op[t].a, op[t].u)
                  /\ Recorded(recFile, op[t].a, op[t].u)
            /\ (/\ Recorded(store0.recs, op[t].a, op[t].u)
                /\ ret[t][1] \notin {"invalid", "not_found", "not_subscribed"}) =>
                  ret[t][1] = "repeat"

\* C33: when no handler is running, every key of the receipts document is
\* the id of a stored announcement.
C33_ReceiptsOfStoredOnly ==
    Quiescent => DOMAIN recFile \subseteq DOMAIN annFile

\* ------------------------------------------------------------ lock claims
\* task t is inside a call that has not returned
Running(t) == pc[t] \notin {"idle", "done"}

\* C34: the lock is owned and waited for only by tasks inside a call, no task
\* waits for the lock while it owns it or waits for it twice, and every task
\* inside a call returns from it.
C34_EveryCallReturns ==
    /\ [](\A t \in DOMAIN pc :
            /\ (json_lock.owner = t \/ Blocked(t)) => Running(t)
            /\ ~(json_lock.owner = t /\ Blocked(t))
            /\ Occurrences(json_lock.queue, t) <= 1
            /\ Running(t) => (json_lock.owner = t \/ Blocked(t)))
    /\ \A t \in Handlers : Running(t) ~> (pc[t] = "done")

\* a cycle whose callback returned None and a sweep that lost a write, neither
\* begun after the other had returned, have both returned and the lock is free
C34_Witness ==
    \E s, t \in DOMAIN pc :
        /\ pc[s] = "done" /\ pc[t] = "done" /\ Concurrent(s, t)
        /\ op[s].kind = "update" /\ op[s].cb = "none"
        /\ IsSweep(t) /\ ~NoFault
        /\ LockFree(json_lock)

\* the sends of a batch of task t's broadcast are under way
Sending(t) == IsBroadcast(t) /\ pc[t] = "gather"

\* C35: while a broadcast sends its message and button to the subscribers,
\* the announcements document holds a record under the id of the broadcast.
C35_RecordStoredAtFanOut ==
    \A t \in DOMAIN pc : Sending(t) => op[t].a \in StoredAnnIds

\* the file accesses of a sweep, of create_announcement and of delete_command
ManagementLabels ==
    {"sweep_load_ann", "sweep_load_rec", "sweep_save_ann", "sweep_save_rec",
     "create_load", "create_save",
     "delete_load_ann", "delete_load_rec", "delete_save_ann", "delete_save_rec"}

\* the step puts u, who was not a subscriber, at the end of the subscribers
\* and changes nothing else
AddsOwnId(u) ==
    /\ u \notin Range(subsFile)
    /\ subsFile' = Append(subsFile, u)
    /\ annFile' = annFile /\ recFile' = recFile

\* the step puts u at the end of the receipts of one announcement and
\* changes nothing else
RecordsOwnReceipt(u) ==
    /\ \E a \in AnnIds :
           recFile' = MapPut(recFile, a, Append(IF a \in DOMAIN recFile
                                                THEN recFile[a] ELSE <<>>, u))
    /\ subsFile' = subsFile /\ annFile' = annFile

\* C36: a handler whose event does not come from the admin never enters a
\* sweep, create_announcement or the deletion of an announcement, and a step
\* of it whose write does not fail leaves the three documents as they are,
\* or appends the sender's own id to the subscribers, or appends the
\* sender's own id to the receipts of an announcement; a button press
\* changes the receipts only for a sender who is a stored subscriber or the
\* admin.
C36_OnlyAdminManages ==
    [][\A t \in DOMAIN pc :
          LET u == Sender(op'[t])
          IN  /\ u # ADMIN_ID =>
                    /\ pc'[t] \notin ManagementLabels
                    /\ faults' = faults =>
                          \/ StoredNow' = StoredNow
                          \/ AddsOwnId(u)
                          \/ RecordsOwnReceipt(u)
              /\ (IsPress(t) /\ recFile' # recFile /\ faults' = faults) =>
                    (op[t].u \in Range(subsFile) \/ op[t].u = ADMIN_ID)]_vars

\* a student who is a subscriber has pressed the button of a stored
\* announcement and is now recorded for it; nothing else has changed
C36_Witness ==
    \E t \in DOMAIN pc :
        /\ IsPress(t) /\ pc[t] = "done" /\ Sender(op[t]) = ADMIN_ID + 1
        /\ op[t].a \in DOMAIN recFile /\ op[t].u \in Range(recFile[op[t].a])
        /\ ~(op[t].a \in DOMAIN store0.recs /\ op[t].u \in Range(store0.recs[op[t].a]))
        /\ subsFile = store0.subs /\ annFile = store0.anns

\* C37: a broadcast that finds no subscriber stored never enters
\* create_announcement or a batch of sends; no record is stored under its id,
\* and the announcements document is the one the handler found, or what the
\* sweep at its start makes of it.
C37_NoSubscribersNoBroadcast ==
    \A t \in DOMAIN pc :
        (IsBroadcast(t) /\ store0.subs = <<>>) =>
            /\ pc[t] \notin {"create_load", "create_save", "dispatch", "gather", "sleep"}
            /\ loc[t].bc = NoBroadcast
            /\ op[t].a \notin DOMAIN annFile
            /\ annFile \in {store0.anns, SweepAnnouncements(store0.anns)}
            /\ (pc[t] = "done" /\ loc[t].swept) =>
                    annFile = SweepAnnouncements(store0.anns)

\* the admin's broadcast found an expired announcement and no subscriber:
\* it has returned after the sweep removed the announcement
C37_Witness ==
    \E t \in DOMAIN pc :
        /\ IsBroadcast(t) /\ pc[t] = "done" /\ loc[t].swept
        /\ store0.subs = <<>> /\ ret[t] = PyNone
        /\ "a1" \in DOMAIN store0.anns /\ annFile = EmptyMap

====
